---------------------------- MODULE Spec2Model ----------------------------
(***************************************************************************)
(* A model of the terminal chatbot of src/new.py: the text normaliser, the *)
(* ordered intent classifier, the persisted conversation memory, the       *)
(* complaint slot-filling flow and the input loop.                         *)
(*                                                                         *)
(* Text is modelled as a sequence of strings.  What the user types is a    *)
(* sequence of one-character strings; a literal part of a reply (a piece   *)
(* of an f-string) is kept as one multi-character string, and the values   *)
(* embedded in it are spliced in character by character.                   *)
(***************************************************************************)
EXTENDS Integers, Sequences, FiniteSets, TLC

VARIABLES
    pc,            \* position of run(): "boot", "greet", "loop", "done", "crashed"
    file,          \* bot_memory.json on disk
    data,          \* Memory.data
    pending_task,  \* Chatbot.pending_task
    csv,           \* Chatbot.loaded_csv, csv_headers, csv_rows
    exported,      \* chat_history.txt
    resp,          \* the reply of the last turn (resp in run)
    now,           \* the clock read by now_str()
    log,           \* the turns taken so far (history variable of the model)
    probe          \* argument and result of a function applied on its own

vars == <<pc, file, data, pending_task, csv, exported, resp, now, log, probe>>

-----------------------------------------------------------------------------
(* Characters and strings                                                  *)

None == <<"None">>

UpperCase == <<"A","B","C","D","E","F","G","H","I","J","K","L","M",
               "N","O","P","Q","R","S","T","U","V","W","X","Y","Z">>
LowerCase == <<"a","b","c","d","e","f","g","h","i","j","k","l","m",
               "n","o","p","q","r","s","t","u","v","w","x","y","z">>
Digits == <<"0","1","2","3","4","5","6","7","8","9">>

Range(s) == {s[i] : i \in DOMAIN s}

UpperSet == Range(UpperCase)
LowerSet == Range(LowerCase)
DigitSet == Range(Digits)
\* the lower-case letter of each upper-case letter, and the converse
ToLower == [c \in UpperSet |-> LowerCase[CHOOSE i \in 1..Len(UpperCase) : UpperCase[i] = c]]
ToUpper == [c \in LowerSet |-> UpperCase[CHOOSE i \in 1..Len(LowerCase) : LowerCase[i] = c]]

IsUpper(c) == c \in UpperSet
IsLower(c) == c \in LowerSet
IsAlpha(c) == IsUpper(c) \/ IsLower(c)
\* \s of the re module
IsSpace(c) == c \in {" ", "\t", "\n", "\r"}
\* \w of the re module
IsWordChar(c) == IsAlpha(c) \/ c \in DigitSet \/ c = "_"

\* str.lower() and str.upper() on one character
Lower(c) == IF IsUpper(c) THEN ToLower[c] ELSE c
Upper(c) == IF IsLower(c) THEN ToUpper[c] ELSE c

LowerStr(s) == [i \in 1..Len(s) |-> Lower(s[i])]

\* str.title(): a letter is upper-cased when no letter precedes it, else lower-cased
Title(s) ==
    [i \in 1..Len(s) |->
        IF i > 1 /\ IsAlpha(s[i-1]) THEN Lower(s[i]) ELSE Upper(s[i])]

RECURSIVE LStrip(_)
LStrip(s) == IF s # <<>> /\ IsSpace(Head(s)) THEN LStrip(Tail(s)) ELSE s

RECURSIVE RStrip(_)
RStrip(s) ==
    IF s # <<>> /\ IsSpace(s[Len(s)]) THEN RStrip(SubSeq(s, 1, Len(s) - 1)) ELSE s

\* str.strip()
Strip(s) == RStrip(LStrip(s))

\* re.sub(r"\s+", " ", text): every run of whitespace becomes one space
RECURSIVE CollapseSpaces(_)
CollapseSpaces(s) ==
    IF s = <<>> THEN <<>>
    ELSE IF IsSpace(Head(s))
         THEN <<" ">> \o CollapseSpaces(LStrip(s))
         ELSE <<Head(s)>> \o CollapseSpaces(Tail(s))

normalize(text) == CollapseSpaces(LowerStr(Strip(text)))

\* str.startswith and the `in` operator on strings
StartsWith(s, p) == Len(s) >= Len(p) /\ SubSeq(s, 1, Len(p)) = p
Includes(s, p) == \E i \in 1..(Len(s) - Len(p) + 1) : SubSeq(s, i, i + Len(p) - 1) = p

\* str.split()[0]: the first whitespace-delimited word of a string that has one
RECURSIVE FirstWord(_)
FirstWord(s) ==
    IF s = <<>> \/ IsSpace(Head(s)) THEN <<>> ELSE <<Head(s)>> \o FirstWord(Tail(s))

\* str(n) for a natural number
RECURSIVE Str(_)
Str(n) == IF n < 10 THEN <<Digits[n + 1]>> ELSE Str(n \div 10) \o <<Digits[(n % 10) + 1]>>

-----------------------------------------------------------------------------
(* Regular expressions of INTENT_PATTERNS, all compiled with re.I          *)

\* the literal lit occurs in t at position i, ignoring case
MatchAt(t, i, lit) ==
    /\ i >= 1
    /\ i + Len(lit) - 1 <= Len(t)
    /\ \A k \in 1..Len(lit) : Lower(t[i + k - 1]) = Lower(lit[k])

\* \b between t[i] and t[i+1] (i = 0 is the start, i = Len(t) the end)
Boundary(t, i) ==
    LET before == i >= 1 /\ IsWordChar(t[i])
        after  == i < Len(t) /\ IsWordChar(t[i + 1])
    IN  before # after

\* the positions where \b(a1|a2|...)\b matches
WordMatches(t, alts) ==
    {i \in 1..Len(t) : \E a \in alts :
        MatchAt(t, i, a) /\ Boundary(t, i - 1) /\ Boundary(t, i + Len(a) - 1)}

WordSearch(t, alts) == WordMatches(t, alts) # {}

Min(S) == CHOOSE x \in S : \A y \in S : x <= y

GreetWords == {<<"h","i">>, <<"h","e","l","l","o">>, <<"h","e","y">>, <<"a","s","s","a","l","a","m">>, <<"s","a","l","a","m">>}
GoodbyeWords == {<<"b","y","e">>, <<"g","o","o","d","b","y","e">>, <<"s","e","e"," ","y","o","u">>, <<"t","a","t","a">>}
TimeWords == {<<"t","i","m","e">>, <<"c","l","o","c","k">>, <<"w","h","a","t"," ","t","i","m","e">>}
DateWords == {<<"d","a","t","e">>, <<"t","o","d","a","y">>}
CalcWords == {<<"c","a","l","c">>, <<"c","a","l","c","u","l","a","t","e">>, <<"e","v","a","l","u","a","t","e">>}
FaqWords == {<<"s","u","n","k"," ","c","o","s","t">>, <<"o","p","p","o","r","t","u","n","i","t","y"," ","c","o","s","t">>, <<"n","p","v">>, <<"i","r","r">>, <<"c","a","p","m">>, <<"b","e","t","a">>,
             <<"p","e","r","p","e","t","u","i","t","y">>, <<"4","p">>, <<"s","t","p">>, <<"s","w","o","t">>, <<"k","p","i">>, <<"l","e","a","n">>, <<"s","i","x"," ","s","i","g","m","a">>}
ComplaintWords == {<<"c","o","m","p","l","a","i","n">>, <<"i","s","s","u","e">>, <<"p","r","o","b","l","e","m">>, <<"r","e","f","u","n","d">>, <<"r","e","t","u","r","n">>, <<"s","u","p","p","o","r","t">>}

\* \bmy name is (.+): the positions where it matches
MyNameIs == <<"m","y"," ","n","a","m","e"," ","i","s"," ">>
SetNameMatches(t) ==
    {i \in 1..Len(t) :
        MatchAt(t, i, MyNameIs) /\ Boundary(t, i - 1) /\ i + Len(MyNameIs) <= Len(t)}

\* ^<cmd>\s+(.+)$ : the index where group 1 starts, 0 when there is no match.
\* \s+ takes the whole run of whitespace unless that leaves nothing for (.+),
\* in which case it gives back its last character.
CmdArgStart(t, cmd) ==
    IF ~MatchAt(t, 1, cmd) THEN 0
    ELSE LET rest == SubSeq(t, Len(cmd) + 1, Len(t))
             ws   == Len(rest) - Len(LStrip(rest))
         IN  IF ws = 0 THEN 0
             ELSE IF ws < Len(rest) THEN Len(cmd) + ws + 1
             ELSE IF ws >= 2 THEN Len(t)
             ELSE 0

\* ^<cmd>$ ($ also matches before a final newline)
WholeLine(t, cmd) ==
    \/ Len(t) = Len(cmd) /\ MatchAt(t, 1, cmd)
    \/ Len(t) = Len(cmd) + 1 /\ MatchAt(t, 1, cmd) /\ t[Len(t)] = "\n"

INTENT_PATTERNS ==
    <<"greet", "goodbye", "set_name", "ask_time", "ask_date", "calculator", "faq",
      "load_csv", "setname_cmd", "help", "reset", "export", "summary", "complaint">>

\* pattern.search(text) finds a match, for the pattern registered under name
PatternMatches(name, t) ==
    CASE name = "greet"       -> WordSearch(t, GreetWords)
      [] name = "goodbye"     -> WordSearch(t, GoodbyeWords)
      [] name = "set_name"    -> SetNameMatches(t) # {}
      [] name = "ask_time"    -> WordSearch(t, TimeWords)
      [] name = "ask_date"    -> WordSearch(t, DateWords)
      [] name = "calculator"  -> StartsWith(t, <<"=">>) \/ WordSearch(t, CalcWords)
      [] name = "faq"         -> WordSearch(t, FaqWords)
      [] name = "load_csv"    -> CmdArgStart(t, <<"/","l","o","a","d","c","s","v">>) # 0
      [] name = "setname_cmd" -> CmdArgStart(t, <<"/","s","e","t","n","a","m","e">>) # 0
      [] name = "help"        -> WholeLine(t, <<"/","h","e","l","p">>)
      [] name = "reset"       -> WholeLine(t, <<"/","r","e","s","e","t">>)
      [] name = "export"      -> WholeLine(t, <<"/","e","x","p","o","r","t","_","h","i","s","t","o","r","y">>)
      [] name = "summary"     -> WholeLine(t, <<"/","s","u","m","m","a","r","y">>)
      [] name = "complaint"   -> WordSearch(t, ComplaintWords)

\* the loop of detect_intent over the patterns from index i on, then the fallback
RECURSIVE ScanPatterns(_, _)
ScanPatterns(t, i) ==
    IF i > Len(INTENT_PATTERNS)
    THEN IF Includes(t, <<"h","e","l","p">>) \/ Includes(t, <<"c","o","m","m","a","n","d","s">>) THEN "help" ELSE "smalltalk"
    ELSE IF PatternMatches(INTENT_PATTERNS[i], t) THEN INTENT_PATTERNS[i]
         ELSE ScanPatterns(t, i + 1)

\* detect_intent with the loop letting a later match replace an earlier one
RECURSIVE ScanPatternsDown(_, _)
ScanPatternsDown(t, i) ==
    IF i = 0
    THEN IF Includes(t, <<"h","e","l","p">>) \/ Includes(t, <<"c","o","m","m","a","n","d","s">>) THEN "help" ELSE "smalltalk"
    ELSE IF PatternMatches(INTENT_PATTERNS[i], t) THEN INTENT_PATTERNS[i]
         ELSE ScanPatternsDown(t, i - 1)
detect_intent_last_match(text) == ScanPatternsDown(text, Len(INTENT_PATTERNS))

detect_intent(text) == ScanPatterns(text, 1)

\* m.group(1) of the match detect_intent returns with set_name
SetNameGroup(t) == SubSeq(t, Min(SetNameMatches(t)) + Len(MyNameIs), Len(t))
\* m.group(1) of the match detect_intent returns with load_csv and setname_cmd
CmdGroup(t, cmd) == SubSeq(t, CmdArgStart(t, cmd), Len(t))

-----------------------------------------------------------------------------
(* Sentiment lexicon, FAQ table and the reply variants                     *)

POS_WORDS == {<<"g","o","o","d">>, <<"g","r","e","a","t">>, <<"e","x","c","e","l","l","e","n","t">>, <<"a","w","e","s","o","m","e">>, <<"a","m","a","z","i","n","g">>, <<"l","o","v","e">>, <<"l","i","k","e">>,
    <<"h","a","p","p","y">>, <<"s","a","t","i","s","f","i","e","d">>, <<"h","e","l","p","f","u","l">>, <<"f","a","s","t">>, <<"f","a","n","t","a","s","t","i","c">>, <<"s","u","p","e","r","b">>, <<"b","r","i","l","l","i","a","n","t">>,
    <<"w","o","n","d","e","r","f","u","l">>, <<"r","e","c","o","m","m","e","n","d">>, <<"p","o","s","i","t","i","v","e">>, <<"s","m","o","o","t","h">>, <<"c","o","n","v","e","n","i","e","n","t">>, <<"a","f","f","o","r","d","a","b","l","e">>,
    <<"r","e","a","s","o","n","a","b","l","e">>, <<"p","o","l","i","t","e">>, <<"f","r","i","e","n","d","l","y">>, <<"q","u","i","c","k">>, <<"i","m","p","r","e","s","s","i","v","e">>, <<"n","e","a","t">>, <<"c","l","e","a","n">>,
    <<"r","e","l","i","a","b","l","e">>}
NEG_WORDS == {<<"b","a","d">>, <<"p","o","o","r">>, <<"t","e","r","r","i","b","l","e">>, <<"a","w","f","u","l">>, <<"h","a","t","e">>, <<"d","i","s","l","i","k","e">>, <<"u","n","h","a","p","p","y">>,
    <<"u","n","s","a","t","i","s","f","i","e","d">>, <<"s","l","o","w">>, <<"r","u","d","e">>, <<"b","r","o","k","e","n">>, <<"w","o","r","s","t">>, <<"l","a","t","e">>, <<"e","x","p","e","n","s","i","v","e">>, <<"d","i","r","t","y">>,
    <<"c","o","n","f","u","s","i","n","g">>, <<"f","r","u","s","t","r","a","t","i","n","g">>, <<"u","n","h","e","l","p","f","u","l">>, <<"p","r","o","b","l","e","m">>, <<"i","s","s","u","e">>, <<"n","e","g","a","t","i","v","e">>, <<"b","u","g","g","y">>,
    <<"c","r","a","s","h">>, <<"d","e","l","a","y">>}

IsTokenChar(c) == IsAlpha(c) \/ c = "'"

\* re.findall(r"[a-zA-Z']+", text): the maximal runs of letters and apostrophes
RECURSIVE Tokens(_, _)
Tokens(s, cur) ==
    IF s = <<>> THEN (IF cur = <<>> THEN <<>> ELSE <<cur>>)
    ELSE IF IsTokenChar(Head(s)) THEN Tokens(Tail(s), Append(cur, Head(s)))
    ELSE (IF cur = <<>> THEN <<>> ELSE <<cur>>) \o Tokens(Tail(s), <<>>)

\* sentiment_score(text) as the pair <<score numerator, number of tokens>>:
\* the score is the first divided by max(1, the second), and 0.0 without tokens
sentiment_score(text) ==
    LET tokens == Tokens(LowerStr(text), <<>>)
        pos == Cardinality({i \in DOMAIN tokens : tokens[i] \in POS_WORDS})
        neg == Cardinality({i \in DOMAIN tokens : tokens[i] \in NEG_WORDS})
    IN  <<pos - neg, Len(tokens)>>

\* the keys of FAQ in the order of the table, and the explanation of each
FAQ == <<<<"s","u","n","k"," ","c","o","s","t">>, <<"o","p","p","o","r","t","u","n","i","t","y"," ","c","o","s","t">>, <<"n","p","v">>, <<"i","r","r">>, <<"c","a","p","m">>, <<"b","e","t","a">>,
         <<"p","e","r","p","e","t","u","i","t","y">>, <<"4","p">>, <<"s","t","p">>, <<"s","w","o","t">>, <<"k","p","i">>, <<"l","e","a","n">>, <<"s","i","x"," ","s","i","g","m","a">>>>
FAQ_TEXT ==
    <<"Sunk cost is money already spent and unrecoverable; ignore it when making future decisions.",
      "Opportunity cost is the value of the next best alternative you give up when making a choice.",
      "NPV (Net Present Value) = sum of discounted cash flows minus initial investment; choose projects with positive NPV.",
      "IRR is the discount rate that makes NPV = 0; select projects with IRR above the required return.",
      "CAPM: Expected Return = Rf + Beta * (Rm - Rf).",
      "Beta measures a stock's sensitivity to market movements (beta > 1 more volatile than market).",
      "Perpetuity PV = C / r (first payment one period from now).",
      "Marketing Mix 4P: Product, Price, Place, Promotion.",
      "STP: Segmentation, Targeting, Positioning.",
      "SWOT: Strengths, Weaknesses, Opportunities, Threats.",
      "KPI: Key Performance Indicator - quantifiable measure of performance over time.",
      "Lean aims to eliminate waste (muda) and maximize customer value.",
      "Six Sigma reduces process variation; DMAIC: Define, Measure, Analyze, Improve, Control.">>

\* the reply variants, a long dash being written " - "
SMALLTALK ==
    <<"Totally noted.", "Got it!", "Interesting - tell me more.", "Thanks for sharing!",
      "I'm here to help - what's next?">>
GREETINGS ==
    <<"Hello! I'm your study buddy bot. What's your name?",
      "Hi there! Great to see you. How can I help today?",
      "Hey! Ready to learn something new?">>
GOODBYES ==
    <<"Bye! Keep learning and stay awesome!",
      "See you later - good luck with your studies!",
      "Goodbye! Ping me anytime.">>

\* random.choice(seq), r being the draw
Choice(seq, r) == seq[((r - 1) % Len(seq)) + 1]

-----------------------------------------------------------------------------
(* Memory: the record in memory, the JSON document on disk                 *)

HistoryCap == 400

\* Memory.data is whatever json.load returned.  shape tells what it is:
\*   "record"     a dict whose "history" is a list
\*   "no_history" a dict without the key "history"
\*   "bad_history" a dict whose "history" is not a list (null, a string, a number)
\*   "not_dict"   a list, a string, a number or null
\* and the other fields carry the members when shape is "record".
Shapes == {"record", "no_history", "bad_history", "not_dict"}

DefaultData == [shape |-> "record", user_name |-> None, preferences |-> {}, history |-> <<>>]

\* the characters json.dumps writes with a backslash before them (the control
\* characters, written as \uXXXX or a letter, are not modelled)
NeedsEscape(c) == c = "\"" \/ c = "\\"

\* the body of a JSON string: a backslash before each quote and backslash
RECURSIVE EscapeFrom(_, _)
EscapeFrom(s, i) ==
    IF i > Len(s) THEN <<>>
    ELSE (IF NeedsEscape(s[i]) THEN <<"\\", s[i]>> ELSE <<s[i]>>) \o EscapeFrom(s, i + 1)
Escape(s) == IF \E i \in DOMAIN s : NeedsEscape(s[i]) THEN EscapeFrom(s, 1) ELSE s

\* the string of a JSON string body: the character after a backslash is taken as it is
RECURSIVE UnescapeFrom(_, _)
UnescapeFrom(j, i) ==
    IF i > Len(j) THEN <<>>
    ELSE IF j[i] = "\\" /\ i < Len(j) THEN <<j[i + 1]>> \o UnescapeFrom(j, i + 2)
    ELSE <<j[i]>> \o UnescapeFrom(j, i + 1)
Unescape(j) == IF \E i \in DOMAIN j : j[i] = "\\" THEN UnescapeFrom(j, 1) ELSE j

\* json.loads of a string token taking the text between the quotes as it stands
FromJsonStrRaw(j) == IF j = <<"null">> THEN None ELSE SubSeq(j, 2, Len(j) - 1)

\* json.dumps of an optional string: null, or the escaped string in quotes
JsonStr(s) == IF s = None THEN <<"null">> ELSE <<"\"">> \o Escape(s) \o <<"\"">>
\* json.loads of such a token
FromJsonStr(j) == IF j = <<"null">> THEN None ELSE Unescape(SubSeq(j, 2, Len(j) - 1))

JsonEntry(h) == [time |-> JsonStr(h.time), role |-> JsonStr(h.role), text |-> JsonStr(h.text)]
FromJsonEntry(j) ==
    [time |-> FromJsonStr(j.time), role |-> FromJsonStr(j.role), text |-> FromJsonStr(j.text)]

\* json.dump(self.data): the document written
json_dump(d) ==
    [shape |-> d.shape,
     user_name |-> JsonStr(d.user_name),
     preferences |-> {<<JsonStr(p[1]), JsonStr(p[2])>> : p \in d.preferences},
     history |-> [i \in 1..Len(d.history) |-> JsonEntry(d.history[i])]]

\* json.load(f): the object read back
json_load(j) ==
    [shape |-> j.shape,
     user_name |-> FromJsonStr(j.user_name),
     preferences |-> {<<FromJsonStr(p[1]), FromJsonStr(p[2])>> : p \in j.preferences},
     history |-> [i \in 1..Len(j.history) |-> FromJsonEntry(j.history[i])]]

\* the file: absent, present with text json cannot parse, or a JSON document
NoDoc == json_dump(DefaultData)
AbsentFile == [state |-> "absent", doc |-> NoDoc]
GarbageFile == [state |-> "garbage", doc |-> NoDoc]
JsonFile(j) == [state |-> "json", doc |-> j]

\* A bot is the part of the process a handler can change, with the exception
\* flag raised when a statement has thrown: every later statement is skipped.
\*   [data, file, pending_task, csv, exported, failed]

\* Memory.load: the data after it, starting from the default of __init__
load(f) ==
    IF f.state = "json" THEN json_load(f.doc) ELSE DefaultData

\* Memory.save with the outcome w of the write:
\*   "ok"      the document is written
\*   "denied"  open() fails and the file is left as it was
\*   "partial" the file is truncated and the write fails part-way
WriteOutcomes == {"ok", "denied", "partial"}
save(b, w) ==
    IF b.failed THEN b
    ELSE [b EXCEPT !.file = CASE w = "ok" -> JsonFile(json_dump(b.data))
                              [] w = "denied" -> b.file
                              [] w = "partial" -> GarbageFile]

\* lst[:n] in the place of lst[-n:]
FirstN(lst, n) == IF Len(lst) > n THEN SubSeq(lst, 1, n) ELSE lst

\* the last n items of a list: lst[-n:]
LastN(lst, n) == IF Len(lst) > n THEN SubSeq(lst, Len(lst) - n + 1, Len(lst)) ELSE lst

\* now_str(): the clock reading as text
now_str(t) == Str(t)

\* add_history without its call of save
add_history_unsaved(b, role, text, t, w) ==
    IF b.failed THEN b
    ELSE IF b.data.shape # "record" THEN [b EXCEPT !.failed = TRUE]
    ELSE LET appended == Append(b.data.history,
                                [time |-> now_str(t), role |-> role, text |-> text])
         IN  [b EXCEPT !.data.history = LastN(appended, HistoryCap)]

\* Memory.add_history
add_history(b, role, text, t, w) ==
    IF b.failed THEN b
    ELSE IF b.data.shape # "record" THEN [b EXCEPT !.failed = TRUE]
    ELSE LET appended == Append(b.data.history,
                                [time |-> now_str(t), role |-> role, text |-> text])
             kept == IF Len(appended) > HistoryCap THEN LastN(appended, HistoryCap)
                     ELSE appended
         IN  save([b EXCEPT !.data.history = kept], w)

-----------------------------------------------------------------------------
(* Chatbot: the handlers.  Each takes the bot b, the clock reading t and   *)
(* the environment e of the turn (the outcomes of its writes, its random   *)
(* draw, the state of the files it opens) and returns the bot after it,    *)
(* with the reply in out.                                                  *)

USER == <<"u","s","e","r">>
ASSISTANT == <<"a","s","s","i","s","t","a","n","t">>

EmptySlots == [product |-> None, issue |-> None, order_id |-> None]
NoTask == [type |-> "none", slots |-> EmptySlots]
NoCsv == [loaded_csv |-> None, csv_headers |-> <<>>, csv_rows |-> <<>>]

\* Chatbot.reply
reply(b, text, t, w) == [add_history(b, ASSISTANT, text, t, w) EXCEPT !.out = text]

\* a statement that throws
raise(b) == [b EXCEPT !.failed = TRUE]

handle_greet(b, t, e) ==
    IF b.data.shape = "not_dict" THEN raise(b)
    ELSE LET name == b.data.user_name
         IN  IF name # None /\ name # <<>>
             THEN reply(b, <<"Hello ">> \o name \o <<"! How can I help today?">>, t, e.w3)
             ELSE reply(b, <<Choice(GREETINGS, e.r)>>, t, e.w3)

\* handle_goodbye addressing the user by name, as handle_greet does
handle_goodbye_by_name(b, t, e) ==
    IF b.data.user_name # None
    THEN reply(b, <<"Bye ">> \o b.data.user_name \o <<"!">>, t, e.w3)
    ELSE reply(b, <<Choice(GOODBYES, e.r)>>, t, e.w3)

handle_goodbye(b, t, e) == reply(b, <<Choice(GOODBYES, e.r)>>, t, e.w3)

handle_set_name(b, text, t, e) ==
    LET name == FirstWord(Strip(SetNameGroup(text)))
        named == save([b EXCEPT !.data.user_name = Title(name)], e.w2)
    IN  reply(named, <<"Nice to meet you, ">> \o named.data.user_name
                     \o <<"! I'll remember your name.">>, t, e.w3)

\* handle_setname_cmd without .title()
handle_setname_cmd_as_typed(b, text, t, e) ==
    LET name == Strip(CmdGroup(text, <<"/","s","e","t","n","a","m","e">>))
        named == save([b EXCEPT !.data.user_name = name], e.w2)
    IN  reply(named, <<"Got it! I'll call you ">> \o named.data.user_name \o <<".">>,
              t, e.w3)

handle_setname_cmd(b, text, t, e) ==
    LET name == Strip(CmdGroup(text, <<"/","s","e","t","n","a","m","e">>))
        named == save([b EXCEPT !.data.user_name = Title(name)], e.w2)
    IN  reply(named, <<"Got it! I'll call you ">> \o named.data.user_name \o <<".">>,
              t, e.w3)

handle_time(b, t, e) == reply(b, <<"Current time: ">> \o now_str(t), t, e.w3)

\* the date is read from the same clock
handle_date(b, t, e) == reply(b, <<"Today is ">> \o now_str(t) \o <<".">>, t, e.w3)

\* the text of handle_help, abridged to its list of commands
HelpText ==
    "Commands: /help /setname Name /loadcsv path.csv /summary /export_history /reset ..."

handle_help(b, t, e) == reply(b, <<HelpText>>, t, e.w3)

\* str.upper() of a string
UpperStr(s) == [i \in 1..Len(s) |-> Upper(s[i])]

\* one line of chat_history.txt
ExportLine(item) ==
    <<"[">> \o item.time \o <<"] ">> \o UpperStr(item.role) \o <<": ">> \o item.text
    \o <<"\n">>

\* e.export_ok: whether chat_history.txt can be opened and written
handle_export(b, t, e) ==
    IF ~e.export_ok THEN raise(b)
    ELSE reply([b EXCEPT !.exported =
                    [written |-> TRUE,
                     lines |-> [i \in 1..Len(b.data.history) |->
                                   ExportLine(b.data.history[i])]]],
               <<"History exported to ", "chat_history.txt", " (in the current folder).">>,
               t, e.w3)

\* the intents of the user messages among the last 20 entries, one per message
RecentIntents(history) ==
    LET hist == LastN(history, 20)
        users == SelectSeq(hist, LAMBDA h : h.role = USER)
    IN  [i \in 1..Len(users) |-> detect_intent(normalize(users[i].text))]

\* ", ".join(f"{k}x{v}" ...) over the keys in the order given
RECURSIVE Bullets(_, _)
Bullets(order, intents) ==
    IF order = <<>> THEN <<>>
    ELSE <<Head(order), "x">>
         \o Str(Cardinality({i \in DOMAIN intents : intents[i] = Head(order)}))
         \o (IF Tail(order) = <<>> THEN <<>> ELSE <<", ">>)
         \o Bullets(Tail(order), intents)

\* e.order: the order in which the set of intents is iterated
handle_summary(b, t, e) ==
    LET intents == RecentIntents(b.data.history)
        bullets == IF intents = <<>> THEN <<"varied topics">> ELSE Bullets(e.order, intents)
    IN  reply(b, <<"Recent summary: we discussed ">> \o bullets
                 \o <<". I also saved your name if you set it.">>, t, e.w3)

\* handle_reset clearing the name and the history only
handle_reset_keeps_preferences(b, t, e) ==
    reply(save([b EXCEPT !.data = [DefaultData EXCEPT !.preferences = b.data.preferences]],
               e.w2),
          <<"Memory cleared. Fresh start!">>, t, e.w3)

\* handle_reset dropping the pending task with the memory
handle_reset_drops_task(b, t, e) ==
    reply(save([b EXCEPT !.data = DefaultData, !.pending_task = NoTask], e.w2),
          <<"Memory cleared. Fresh start!">>, t, e.w3)

handle_reset(b, t, e) ==
    reply(save([b EXCEPT !.data = DefaultData], e.w2),
          <<"Memory cleared. Fresh start!">>, t, e.w3)

\* re.sub(r"^(calc(ulate)?|evaluate)\s+", "", expr, flags=re.I)
StripCalcWord(expr) ==
    LET words == {w \in CalcWords :
                     MatchAt(expr, 1, w) /\ Len(expr) > Len(w) /\ IsSpace(expr[Len(w) + 1])}
    IN  IF words = {} THEN expr
        ELSE LStrip(SubSeq(expr, Len(CHOOSE w \in words : TRUE) + 1, Len(expr)))

\* the expression handle_calculator passes to the evaluator
CalcExpr(text) ==
    StripCalcWord(IF StartsWith(Strip(text), <<"=">>) THEN Tail(Strip(text)) ELSE text)

\* e.calc: what safe_eval.eval(expr) does on an expression that is not blank, a
\* value or an exception with its message; ast.parse rejects a blank expression
handle_calculator(b, text, t, e) ==
    LET outcome == IF Strip(CalcExpr(text)) = <<>>
                   THEN [ok |-> FALSE, text |-> <<"invalid syntax">>]
                   ELSE e.calc
    IN  IF outcome.ok
        THEN reply(b, <<"Result: ">> \o outcome.text, t, e.w3)
        ELSE reply(b, <<"Sorry, I couldn't evaluate that. (">> \o outcome.text \o <<")">>,
                   t, e.w3)

\* the first key of FAQ contained in text, 0 when there is none
RECURSIVE FaqIndex(_, _)
FaqIndex(text, i) ==
    IF i > Len(FAQ) THEN 0
    ELSE IF Includes(text, FAQ[i]) THEN i ELSE FaqIndex(text, i + 1)

handle_faq(b, text, t, e) ==
    LET i == FaqIndex(text, 1)
    IN  IF i # 0 THEN reply(b, Title(FAQ[i]) \o <<": ", FAQ_TEXT[i]>>, t, e.w3)
        ELSE reply(b, <<"I didn't find that topic. Try /help for supported FAQs.">>, t, e.w3)

TicketLow == 10000
TicketHigh == 99999
\* random.randint(lo, hi), r being the draw
randint(lo, hi, r) == IF r % 2 = 1 THEN lo + (r \div 2) ELSE hi - ((r \div 2) - 1)

\* handle_complaint without `self.pending_task = None` when the ticket is made
handle_complaint_keeps_task(b, text, t, e) ==
    IF b.pending_task.type # "complaint"
    THEN reply([b EXCEPT !.pending_task = [type |-> "complaint", slots |-> EmptySlots]],
               <<"I'm opening a support ticket. What product is this about?">>, t, e.w3)
    ELSE LET slots == b.pending_task.slots IN
         IF slots.product = None
         THEN reply([b EXCEPT !.pending_task.slots.product = text],
                    <<"Got it. Briefly describe the issue.">>, t, e.w3)
         ELSE IF slots.issue = None
         THEN reply([b EXCEPT !.pending_task.slots.issue = text],
                    <<"Please share your order ID (or say 'none').">>, t, e.w3)
         ELSE IF slots.order_id = None
         THEN LET oid == Strip(text)
                  order_id == IF LowerStr(oid) = <<"n","o","n","e">> THEN None ELSE oid
                  ticket_id == <<"TKT-">> \o Str(randint(TicketLow, TicketHigh, e.r))
              IN  reply([b EXCEPT !.pending_task.slots.order_id = order_id],
                        <<"Thanks! Ticket ">> \o ticket_id
                        \o <<" created. Product: ">> \o slots.product
                        \o <<". Issue: ">> \o slots.issue
                        \o <<". Order ID: ">>
                        \o (IF order_id = None \/ order_id = <<>> THEN <<"N/A">> ELSE order_id)
                        \o <<". Our team will follow up.">>, t, e.w3)
         ELSE reply(b, <<"Your ticket is already created. Anything else?">>, t, e.w3)

\* handle_complaint opening a new ticket whenever the text holds a complaint word
handle_complaint_restarts(b, text, t, e) ==
    IF b.pending_task.type # "complaint" \/ WordSearch(text, ComplaintWords)
    THEN reply([b EXCEPT !.pending_task = [type |-> "complaint", slots |-> EmptySlots]],
               <<"I'm opening a support ticket. What product is this about?">>, t, e.w3)
    ELSE LET slots == b.pending_task.slots IN
         IF slots.product = None
         THEN reply([b EXCEPT !.pending_task.slots.product = text],
                    <<"Got it. Briefly describe the issue.">>, t, e.w3)
         ELSE IF slots.issue = None
         THEN reply([b EXCEPT !.pending_task.slots.issue = text],
                    <<"Please share your order ID (or say 'none').">>, t, e.w3)
         ELSE IF slots.order_id = None
         THEN LET oid == Strip(text)
                  order_id == IF LowerStr(oid) = <<"n","o","n","e">> THEN None ELSE oid
                  ticket_id == <<"TKT-">> \o Str(randint(TicketLow, TicketHigh, e.r))
              IN  reply([b EXCEPT !.pending_task = NoTask],
                        <<"Thanks! Ticket ">> \o ticket_id
                        \o <<" created. Product: ">> \o slots.product
                        \o <<". Issue: ">> \o slots.issue
                        \o <<". Order ID: ">>
                        \o (IF order_id = None \/ order_id = <<>> THEN <<"N/A">> ELSE order_id)
                        \o <<". Our team will follow up.">>, t, e.w3)
         ELSE reply(b, <<"Your ticket is already created. Anything else?">>, t, e.w3)

handle_complaint(b, text, t, e) ==
    IF b.pending_task.type # "complaint"
    THEN reply([b EXCEPT !.pending_task = [type |-> "complaint", slots |-> EmptySlots]],
               <<"I'm opening a support ticket. What product is this about?">>, t, e.w3)
    ELSE LET slots == b.pending_task.slots IN
         IF slots.product = None
         THEN reply([b EXCEPT !.pending_task.slots.product = text],
                    <<"Got it. Briefly describe the issue.">>, t, e.w3)
         ELSE IF slots.issue = None
         THEN reply([b EXCEPT !.pending_task.slots.issue = text],
                    <<"Please share your order ID (or say 'none').">>, t, e.w3)
         ELSE IF slots.order_id = None
         THEN LET oid == Strip(text)
                  order_id == IF LowerStr(oid) = <<"n","o","n","e">> THEN None ELSE oid
                  ticket_id == <<"TKT-">> \o Str(randint(TicketLow, TicketHigh, e.r))
              IN  reply([b EXCEPT !.pending_task = NoTask],
                        <<"Thanks! Ticket ">> \o ticket_id
                        \o <<" created. Product: ">> \o slots.product
                        \o <<". Issue: ">> \o slots.issue
                        \o <<". Order ID: ">>
                        \o (IF order_id = None \/ order_id = <<>> THEN <<"N/A">> ELSE order_id)
                        \o <<". Our team will follow up.">>, t, e.w3)
         ELSE reply(b, <<"Your ticket is already created. Anything else?">>, t, e.w3)

handle_smalltalk(b, text, t, e) ==
    LET s == sentiment_score(text)
        \* s > 0.02 and s < -0.02, the score being s[1] / max(1, s[2])
        positive == s[2] > 0 /\ 100 * s[1] > 2 * s[2]
        negative == s[2] > 0 /\ 100 * s[1] < -2 * s[2]
    IN  IF positive THEN reply(b, <<Choice(SMALLTALK, e.r), " :)">>, t, e.w3)
        ELSE IF negative
        THEN reply(b, <<"Sorry to hear that. Tell me more - maybe I can help.">>, t, e.w3)
        ELSE reply(b, <<Choice(SMALLTALK, e.r)>>, t, e.w3)

-----------------------------------------------------------------------------
(* CSV quick insights                                                      *)

\* str.strip('"')
RECURSIVE StripQuotes(_)
StripQuotes(s) ==
    IF s # <<>> /\ Head(s) = "\"" THEN StripQuotes(Tail(s))
    ELSE IF s # <<>> /\ s[Len(s)] = "\"" THEN StripQuotes(SubSeq(s, 1, Len(s) - 1))
    ELSE s

IsDigits(s) == s # <<>> /\ \A i \in DOMAIN s : s[i] \in DigitSet

\* the digits of s before and after its decimal point
IntPart(s) == IF \E i \in DOMAIN s : s[i] = "."
              THEN SubSeq(s, 1, (CHOOSE i \in DOMAIN s : s[i] = ".") - 1) ELSE s
FracPart(s) == IF \E i \in DOMAIN s : s[i] = "."
               THEN SubSeq(s, (CHOOSE i \in DOMAIN s : s[i] = ".") + 1, Len(s)) ELSE <<>>

Unsigned(s) == IF s # <<>> /\ Head(s) \in {"+", "-"} THEN Tail(s) ELSE s

\* float(s) returns a finite number: sign, digits and at most one decimal point,
\* with at most three decimals (exponents and underscores are not modelled)
IsDecimal(s) ==
    LET u == Unsigned(Strip(s))
    IN  /\ Cardinality({i \in DOMAIN u : u[i] = "."}) <= 1
        /\ IntPart(u) \o FracPart(u) # <<>>
        /\ IntPart(u) = <<>> \/ IsDigits(IntPart(u))
        /\ FracPart(u) = <<>> \/ (IsDigits(FracPart(u)) /\ Len(FracPart(u)) <= 3)

\* float(s) returns nan or an infinity
IsNanOrInf(s) == LowerStr(Unsigned(Strip(s))) \in {<<"n","a","n">>, <<"i","n","f">>, <<"i","n","f","i","n","i","t","y">>}

\* float(v) does not raise; float(None) raises TypeError
FloatOk(v) == v # None /\ (IsDecimal(v) \/ IsNanOrInf(v))

RECURSIVE DigitsValue(_)
DigitsValue(s) ==
    IF s = <<>> THEN 0
    ELSE 10 * DigitsValue(SubSeq(s, 1, Len(s) - 1))
         + ((CHOOSE d \in 1..10 : Digits[d] = s[Len(s)]) - 1)

\* float(s) in thousandths, for a string IsDecimal accepts
Thousandths(s) ==
    LET u == Unsigned(Strip(s))
        f == FracPart(u)
        scaled == DigitsValue(IntPart(u)) * 1000
                  + DigitsValue(f \o [i \in 1..(3 - Len(f)) |-> "0"])
    IN  IF Head(Strip(s)) = "-" THEN -scaled ELSE scaled

\* the nearest integer to p / q for q > 0, a tie going to the even one
RoundDiv(p, q) ==
    LET fl == IF p >= 0 THEN p \div q ELSE -((-p + q - 1) \div q)
        twice == 2 * (p - fl * q)
    IN  IF twice < q THEN fl
        ELSE IF twice > q THEN fl + 1
        ELSE IF fl % 2 = 0 THEN fl ELSE fl + 1

\* the nearest natural number to the square root of p / q, for p >= 0 and q > 0,
\* which is at most hi
RoundSqrt(p, q, hi) ==
    CHOOSE k \in 0..hi :
        /\ (k = 0 \/ (2 * k - 1) * (2 * k - 1) * q <= 4 * p)
        /\ 4 * p < (2 * k + 1) * (2 * k + 1) * q

\* f"{x:.3f}" of x = n / 1000
Fixed3(n) ==
    LET a == IF n < 0 THEN -n ELSE n
        frac == Str(a % 1000)
    IN  (IF n < 0 THEN <<"-">> ELSE <<>>) \o Str(a \div 1000) \o <<".">>
        \o [i \in 1..(3 - Len(frac)) |-> "0"] \o frac

RECURSIVE SumSeq(_)
SumSeq(s) == IF s = <<>> THEN 0 ELSE Head(s) + SumSeq(Tail(s))

\* sorted(vals)
RECURSIVE Sorted(_)
Sorted(s) ==
    IF s = <<>> THEN <<>>
    ELSE LET i == CHOOSE i \in DOMAIN s : \A j \in DOMAIN s : s[i] <= s[j]
         IN  <<s[i]>> \o Sorted(SubSeq(s, 1, i - 1) \o SubSeq(s, i + 1, Len(s)))

\* the statistics of the values vals (in thousandths), each as f"{x:.3f}"
MeanText(vals) == Fixed3(RoundDiv(SumSeq(vals), Len(vals)))
MedianText(vals) ==
    LET s == Sorted(vals)
        n == Len(s)
    IN  IF n % 2 = 1 THEN Fixed3(s[(n + 1) \div 2])
        ELSE Fixed3(RoundDiv(s[n \div 2] + s[(n \div 2) + 1], 2))
\* pstdev: the square root of (n * sum(x^2) - sum(x)^2) / n^2
PstdevText(vals) ==
    LET n == Len(vals)
        sq == SumSeq([i \in 1..n |-> vals[i] * vals[i]])
        sm == SumSeq(vals)
        spread == Sorted(vals)[n] - Sorted(vals)[1]
    IN  Fixed3(RoundSqrt(n * sq - sm * sm, n * n, spread))

\* the value of column h in row r: r[h], None when the row is too short
Cell(r, h) == IF h \in DOMAIN r THEN r[h] ELSE None

\* next((r[h] for r in rows if r.get(h) not in (None, '')), 'nan')
FirstNonEmpty(rows, h) ==
    LET filled == {i \in DOMAIN rows : Cell(rows[i], h) # None /\ Cell(rows[i], h) # <<>>}
    IN  IF filled = {} THEN <<"n","a","n">> ELSE Cell(rows[Min(filled)], h)

\* numeric_cols: the headers whose first non-empty value float() accepts
numeric_cols(headers, rows) ==
    SelectSeq(headers, LAMBDA h : FloatOk(FirstNonEmpty(rows, h)))

\* vals: the values of column col that float() accepts, in row order.  A
\* value that is nan or infinite is not modelled: no dataset of the model has one.
ColumnValues(rows, col) ==
    LET ok == SelectSeq(rows, LAMBDA r : FloatOk(Cell(r, col)))
    IN  [i \in 1..Len(ok) |-> Thousandths(Cell(ok[i], col))]

\* e.fs: what is at the path: nothing, a file that cannot be read as CSV, or a table
handle_load_csv(b, text, t, e) ==
    LET path == StripQuotes(Strip(CmdGroup(text, <<"/","l","o","a","d","c","s","v">>)))
    IN  IF e.fs.state = "missing"
        THEN reply(b, <<"CSV not found. Please provide a valid path.">>, t, e.w3)
        ELSE IF e.fs.state = "unreadable"
        THEN raise([b EXCEPT !.csv = [loaded_csv |-> path, csv_headers |-> <<>>,
                                      csv_rows |-> <<>>]])
        ELSE LET headers == e.fs.headers
                 rows == e.fs.rows
                 loaded == [b EXCEPT !.csv = [loaded_csv |-> path, csv_headers |-> headers,
                                              csv_rows |-> rows]]
                 cols == numeric_cols(headers, rows)
                 vals == ColumnValues(rows, Head(cols))
                 msg == <<"Loaded ">> \o path \o <<" with ">> \o Str(Len(rows))
                        \o <<" rows and ">> \o Str(Len(headers)) \o <<" columns.">>
             IN  IF rows = <<>>
                 THEN reply(loaded, <<"Loaded ">> \o path \o <<", but it has no rows.">>,
                            t, e.w3)
                 ELSE IF cols # <<>> /\ vals # <<>>
                 THEN reply(loaded,
                            msg \o <<"\n", "Quick stats for '">> \o Head(cols)
                            \o <<"': count=">> \o Str(Len(vals))
                            \o <<", mean=">> \o MeanText(vals)
                            \o <<", median=">> \o MedianText(vals)
                            \o <<", stdev=">> \o PstdevText(vals), t, e.w3)
                 ELSE reply(loaded, msg, t, e.w3)

-----------------------------------------------------------------------------
(* SafeEvaluator: the trees ast.parse builds and their evaluation          *)

\* The nodes of a tree, by the ast class of each.
Num(n) == [node |-> "Constant", numeric |-> TRUE, value |-> n]
StrLit == [node |-> "Constant", numeric |-> FALSE, value |-> 0]
Name(id) == [node |-> "Name", id |-> id]
UnaryOp(op, operand) == [node |-> "UnaryOp", op |-> op, operand |-> operand]
BinOp(op, left, right) == [node |-> "BinOp", op |-> op, left |-> left, right |-> right]
Call(arg) == [node |-> "Call", func |-> "abs", arg |-> arg]
Compare(left, right) == [node |-> "Compare", left |-> left, right |-> right]

\* ALLOWED_NODES, the classes of nodes and of operators among them
ALLOWED_NODES == {"Expression", "BinOp", "UnaryOp", "Num", "Constant", "Load", "Call", "Name"}
ALLOWED_OPS == {"Add", "Sub", "Mult", "Div", "Mod", "Pow", "USub", "UAdd"}

\* ALLOWED_NAMES: the names; the value of each is a float that is not modelled
ALLOWED_NAMES == {"pi", "e"}

\* A number is the fraction p / q in lowest terms with q > 0, fl telling that
\* it is a float.  Inexact stands for a float whose value is not modelled (a
\* named constant, a power with a fractional exponent).
Inexact == [p |-> 0, q |-> 0, fl |-> TRUE]
IntVal(n) == [p |-> n, q |-> 1, fl |-> FALSE]

Abs(n) == IF n < 0 THEN -n ELSE n

RECURSIVE GCD(_, _)
GCD(a, b) == IF b = 0 THEN a ELSE GCD(b, a % b)

Fraction(p, q, fl) ==
    LET g == GCD(Abs(p), Abs(q))
        s == IF q < 0 THEN -1 ELSE 1
    IN  [p |-> (s * p) \div g, q |-> (s * q) \div g, fl |-> fl]

IsZero(v) == v # Inexact /\ v.p = 0

Raised(err) == [ok |-> FALSE, err |-> err, val |-> Inexact]
Returned(v) == [ok |-> TRUE, err |-> "", val |-> v]

RECURSIVE IntPower(_, _)
IntPower(a, n) == IF n = 0 THEN 1 ELSE a * IntPower(a, n - 1)

\* left + right, left - right, left * right
PyAdd(a, b) ==
    IF a = Inexact \/ b = Inexact THEN Returned(Inexact)
    ELSE Returned(Fraction(a.p * b.q + b.p * a.q, a.q * b.q, a.fl \/ b.fl))
PySub(a, b) ==
    IF a = Inexact \/ b = Inexact THEN Returned(Inexact)
    ELSE Returned(Fraction(a.p * b.q - b.p * a.q, a.q * b.q, a.fl \/ b.fl))
PyMult(a, b) ==
    IF a = Inexact \/ b = Inexact THEN Returned(Inexact)
    ELSE Returned(Fraction(a.p * b.p, a.q * b.q, a.fl \/ b.fl))

\* left / right: true division, a float, ZeroDivisionError for a zero divisor
PyDiv(a, b) ==
    IF IsZero(b) THEN Raised("ZeroDivisionError")
    ELSE IF a = Inexact \/ b = Inexact THEN Returned(Inexact)
    ELSE Returned(Fraction(a.p * b.q, a.q * b.p, TRUE))

\* left % right: the remainder has the sign of the divisor
PyMod(a, b) ==
    IF IsZero(b) THEN Raised("ZeroDivisionError")
    ELSE IF a = Inexact \/ b = Inexact THEN Returned(Inexact)
    ELSE LET s == IF b.p < 0 THEN -1 ELSE 1
             floor == (s * a.p * b.q) \div (a.q * s * b.p)
         IN  Returned(Fraction(a.p * b.q - floor * b.p * a.q, a.q * b.q, a.fl \/ b.fl))

\* left ** right: a negative exponent gives a float, and ZeroDivisionError for
\* a zero base; the value for a fractional exponent is not modelled
PyPow(a, b) ==
    IF a = Inexact \/ b = Inexact THEN Returned(Inexact)
    ELSE IF b.p < 0 /\ a.p = 0 THEN Raised("ZeroDivisionError")
    ELSE IF b.q # 1 THEN Returned(Inexact)
    ELSE IF b.p >= 0
    THEN Returned(Fraction(IntPower(a.p, b.p), IntPower(a.q, b.p), a.fl \/ b.fl))
    ELSE Returned(Fraction(IntPower(a.q, -b.p), IntPower(a.p, -b.p), TRUE))

\* the BinOp branch with the operands taken right before left
BinOpSwapped(op, left, right) ==
    CASE op = "Add"  -> PyAdd(right, left)
      [] op = "Sub"  -> PySub(right, left)
      [] op = "Mult" -> PyMult(right, left)
      [] op = "Div"  -> PyDiv(right, left)
      [] op = "Mod"  -> PyMod(right, left)
      [] op = "Pow"  -> PyPow(right, left)
      [] OTHER       -> Raised("Unsupported expression")

\* the chain of tests on node.op in the BinOp branch of _eval; an operator
\* that none of them takes falls through to the last raise
BinOpApply(op, left, right) ==
    CASE op = "Add"  -> PyAdd(left, right)
      [] op = "Sub"  -> PySub(left, right)
      [] op = "Mult" -> PyMult(left, right)
      [] op = "Div"  -> PyDiv(left, right)
      [] op = "Mod"  -> PyMod(left, right)
      [] op = "Pow"  -> PyPow(left, right)
      [] OTHER       -> Raised("Unsupported expression")

\* the tests on node.op in the UnaryOp branch
UnaryOpApply(op, val) ==
    CASE op = "UAdd" -> Returned(val)
      [] op = "USub" -> IF val = Inexact THEN Returned(Inexact)
                        ELSE Returned([val EXCEPT !.p = -val.p])
      [] OTHER       -> Raised("Unsupported expression")

\* SafeEvaluator._eval: the value returned, or the exception raised.  The left
\* operand is evaluated before the right one, and an exception ends the call.
RECURSIVE _eval(_)
_eval(node) ==
    CASE node.node = "Constant" ->
            IF node.numeric THEN Returned(IntVal(node.value))
            ELSE Raised("Unsupported expression")
      [] node.node = "BinOp" ->
            LET left == _eval(node.left)
            IN  IF ~left.ok THEN left
                ELSE LET right == _eval(node.right)
                     IN  IF ~right.ok THEN right
                         ELSE BinOpApply(node.op, left.val, right.val)
      [] node.node = "UnaryOp" ->
            LET val == _eval(node.operand)
            IN  IF ~val.ok THEN val ELSE UnaryOpApply(node.op, val.val)
      [] node.node = "Name" ->
            IF node.id \in ALLOWED_NAMES THEN Returned(Inexact)
            ELSE Raised("Unknown name")
      [] OTHER -> Raised("Unsupported expression")

\* SafeEvaluator.visit: ValueError("Disallowed expression") for a node whose
\* class is not in ALLOWED_NODES.  eval does not call it.
visit(node) ==
    IF node.node \notin ALLOWED_NODES THEN Raised("Disallowed expression")
    ELSE Returned(Inexact)

\* SafeEvaluator.eval on the tree ast.parse built: self._eval(tree.body)
eval(tree) == _eval(tree)

\* str(val): the digits of an int; a float is written as the fraction it equals
ValueText(v) ==
    IF v = Inexact THEN <<"float">>
    ELSE (IF v.p < 0 THEN <<"-">> ELSE <<>>) \o Str(Abs(v.p))
         \o (IF v.fl THEN <<"/">> \o Str(v.q) ELSE <<>>)

\* the source text of an operator
OpText(op) ==
    CASE op = "Add" -> <<"+">> [] op = "Sub" -> <<"-">> [] op = "Mult" -> <<"*">>
      [] op = "Div" -> <<"/">> [] op = "Mod" -> <<"%">> [] op = "Pow" -> <<"*","*">>
      [] op = "FloorDiv" -> <<"/","/">> [] op = "UAdd" -> <<"+">> [] op = "USub" -> <<"-">>
      [] op = "Invert" -> <<"~">>

\* The source text of a tree, every operand that is not a literal in
\* parentheses: ast.parse of this text builds the tree.
RECURSIVE Unparse(_)
Wrapped(node) ==
    IF node.node \in {"BinOp", "UnaryOp", "Compare"}
    THEN <<"(">> \o Unparse(node) \o <<")">> ELSE Unparse(node)
Unparse(node) ==
    CASE node.node = "Constant" -> IF node.numeric THEN Str(node.value) ELSE <<"'","a","'">>
      [] node.node = "Name" -> <<node.id>>
      [] node.node = "UnaryOp" -> OpText(node.op) \o Wrapped(node.operand)
      [] node.node = "BinOp" -> Wrapped(node.left) \o OpText(node.op) \o Wrapped(node.right)
      [] node.node = "Call" -> <<"a","b","s","(">> \o Unparse(node.arg) \o <<")">>
      [] node.node = "Compare" -> Wrapped(node.left) \o <<"<">> \o Wrapped(node.right)

\* the message of an exception _eval lets out (the wording of a
\* ZeroDivisionError is that of the division of two ints)
ErrText(err) == IF err = "ZeroDivisionError" THEN <<"division by zero">> ELSE <<err>>

\* the expressions typed in the calculator specification, as the trees
\* ast.parse builds from them
CalcTrees ==
    {BinOp("Add", Num(2), Num(2)),
     BinOp("Div", Num(1), Num(0)),
     BinOp("Mod", Num(2), Num(0)),
     BinOp("Pow", Num(0), UnaryOp("USub", Num(1))),
     BinOp("Add", BinOp("Div", Num(1), Num(0)), Call(Num(1))),
     BinOp("Add", Call(Num(1)), BinOp("Div", Num(1), Num(0)))}

\* ast.parse(expr, mode='eval') on the text of one of these trees
Parse(expr) == {tree \in CalcTrees : Unparse(tree) = expr}

\* what safe_eval.eval(expr) does: the value or the exception of the tree when
\* expr is the text of a known one, and any outcome for another text
EvalOutcomes(expr, others) ==
    IF Parse(expr) = {} THEN others
    ELSE {LET out == eval(tree)
          IN  [ok |-> out.ok, text |-> IF out.ok THEN ValueText(out.val) ELSE ErrText(out.err)] :
          tree \in Parse(expr)}

-----------------------------------------------------------------------------
(* Chatbot.handle and run()                                                *)

\* the test of handle without its exception for commands
InSlotFillingAlways(b, text) == b.pending_task.type # "none"

\* the test of handle with a goodbye phrase let through to the classifier
InSlotFillingButGoodbye(b, text) ==
    b.pending_task.type # "none" /\ ~StartsWith(text, <<"/">>) /\ text \notin GoodbyeWords

\* whether handle feeds the input to the pending slot-filling flow
InSlotFilling(b, text) == b.pending_task.type # "none" /\ ~StartsWith(text, <<"/">>)

\* Chatbot.handle
handle(b, user_text_raw, t, e) ==
    LET user_text == normalize(user_text_raw)
        b1 == add_history(b, USER, user_text_raw, t, e.w1)
        intent == detect_intent(user_text)
    IN  IF InSlotFilling(b1, user_text) /\ b1.pending_task.type = "complaint"
        THEN handle_complaint(b1, user_text_raw, t, e)
        ELSE CASE intent = "greet"       -> handle_greet(b1, t, e)
               [] intent = "goodbye"     -> handle_goodbye(b1, t, e)
               [] intent = "set_name"    -> handle_set_name(b1, user_text, t, e)
               [] intent = "ask_time"    -> handle_time(b1, t, e)
               [] intent = "ask_date"    -> handle_date(b1, t, e)
               [] intent = "calculator"  -> handle_calculator(b1, user_text_raw, t, e)
               [] intent = "faq"         -> handle_faq(b1, user_text, t, e)
               [] intent = "load_csv"    -> handle_load_csv(b1, user_text, t, e)
               [] intent = "setname_cmd" -> handle_setname_cmd(b1, user_text, t, e)
               [] intent = "help"        -> handle_help(b1, t, e)
               [] intent = "reset"       -> handle_reset(b1, t, e)
               [] intent = "export"      -> handle_export(b1, t, e)
               [] intent = "summary"     -> handle_summary(b1, t, e)
               [] intent = "complaint"   -> handle_complaint(b1, user_text_raw, t, e)
               [] OTHER                  -> handle_smalltalk(b1, user_text_raw, t, e)

\* the handler handle dispatches to: "slot" for the pending flow, else the intent
Route(task, user_text_raw) ==
    IF task.type # "none" /\ ~StartsWith(normalize(user_text_raw), <<"/">>)
    THEN "slot" ELSE detect_intent(normalize(user_text_raw))

Bot == [data |-> data, file |-> file, pending_task |-> pending_task, csv |-> csv,
        exported |-> exported, failed |-> FALSE, out |-> <<>>]

NoProbe == [fn |-> "none", arg |-> <<>>, result |-> "", done |-> FALSE]

\* the state before run() constructs the Chatbot, the file on disk being f
Boot(f) ==
    /\ pc = "boot"
    /\ file = f
    /\ data = DefaultData
    /\ pending_task = NoTask
    /\ csv = NoCsv
    /\ exported = [written |-> FALSE, lines |-> <<>>]
    /\ resp = <<>>
    /\ now = 0
    /\ log = <<>>
    /\ probe = NoProbe

\* bot = Chatbot(): Memory.__init__ loads the file
Construct ==
    /\ pc = "boot"
    /\ data' = load(file)
    /\ pc' = "greet"
    /\ UNCHANGED <<file, pending_task, csv, exported, resp, now, log, probe>>

\* the effect of a call of a handler that left the bot b
Effect(b) ==
    /\ data' = b.data
    /\ file' = b.file
    /\ pending_task' = b.pending_task
    /\ csv' = b.csv
    /\ exported' = b.exported
    /\ resp' = IF b.failed THEN <<>> ELSE b.out

-----------------------------------------------------------------------------
(* The environment of a turn                                               *)

RECURSIVE Perms(_)
Perms(S) ==
    IF S = {} THEN {<<>>}
    ELSE UNION {{<<x>> \o p : p \in Perms(S \ {x})} : x \in S}

\* the orders in which handle_summary can iterate over set(intents)
SummaryOrders(history, user) ==
    LET intents == RecentIntents(Append(history,
                        [time |-> <<>>, role |-> USER, text |-> user]))
    IN  Perms(Range(intents))

CalcOutcomes ==
    {[ok |-> TRUE, text |-> <<"4">>], [ok |-> FALSE, text |-> <<"division by zero">>],
     [ok |-> FALSE, text |-> <<"Unsupported expression">>]}

SalesTable ==
    [state |-> "table", headers |-> <<<<"R","e","g","i","o","n">>, <<"S","a","l","e","s">>>>,
     rows |-> <<(<<"R","e","g","i","o","n">> :> <<"e","a","s","t">>) @@ (<<"S","a","l","e","s">> :> <<"1">>),
                (<<"R","e","g","i","o","n">> :> <<"w","e","s","t">>) @@ (<<"S","a","l","e","s">> :> <<"2">>),
                (<<"R","e","g","i","o","n">> :> <<"n","o","r","t","h">>) @@ (<<"S","a","l","e","s">> :> <<"3">>)>>]
EmptyTable == [state |-> "table", headers |-> <<<<"R","e","g","i","o","n">>, <<"S","a","l","e","s">>>>, rows |-> <<>>]
MissingPath == [state |-> "missing", headers |-> <<>>, rows |-> <<>>]
UnreadablePath == [state |-> "unreadable", headers |-> <<>>, rows |-> <<>>]
FsStates == {MissingPath, UnreadablePath, EmptyTable, SalesTable}

NumDraws == 2

\* The environments of a turn that takes route: writes with an outcome in W,
\* chat_history.txt writable as X tells.  A part of the environment the route does
\* not read is fixed.
Envs(route, user, W, X) ==
  {e \in
    [w1 : W,
     w2 : IF route \in {"set_name", "setname_cmd", "reset"} THEN W ELSE {"ok"},
     w3 : W,
     r : IF route \in {"greet", "goodbye", "smalltalk", "slot"} THEN 1..NumDraws ELSE {1},
     export_ok : IF route = "export" THEN X ELSE {TRUE},
     calc : IF route = "calculator" THEN EvalOutcomes(CalcExpr(user), CalcOutcomes)
            ELSE {[ok |-> TRUE, text |-> <<"4">>]},
     fs : IF route = "load_csv" THEN FsStates ELSE {MissingPath},
     order : IF route = "summary" THEN SummaryOrders(data.history, user) ELSE {<<>>}] :
    \* an earlier write of the turn shows only when the last one leaves the file alone
    e.w3 # "denied" => (e.w1 = "ok" /\ e.w2 = "ok")}

\* print(bot.handle_greet()) before the loop; the writes have an outcome in W
StartGreet(W) ==
    /\ pc = "greet"
    /\ \E e \in Envs("greet", <<>>, W, {TRUE}) :
       \E b \in {handle_greet(Bot, now, e)} :
           /\ Effect(b)
           /\ pc' = IF b.failed THEN "crashed" ELSE "loop"
    /\ UNCHANGED <<now, log, probe>>

\* one pass of the loop of run() on the line user; eof tells that input() raised
\* EOFError or KeyboardInterrupt and user is the "bye" put in its place.  The
\* turn is taken while fewer than limit turns were, in an environment of W and X.
LoopPass(user, eof, limit, W, X) ==
    /\ pc = "loop"
    /\ Len(log) < limit
    /\ Strip(user) # <<>>
    /\ \E route \in {Route(pending_task, user)} :
       \E e \in Envs(route, user, W, X) :
       \E b \in {handle(Bot, user, now + 1, e)} :
           /\ Effect(b)
           /\ pc' = IF b.failed THEN "crashed"
                    ELSE IF \E i \in DOMAIN GOODBYES : b.out = <<GOODBYES[i]>> THEN "done"
                    ELSE "loop"
           /\ log' = Append(log, [user |-> user, eof |-> eof,
                                  pending_pre |-> pending_task,
                                  route |-> route, saved |-> e.w3 = "ok",
                                  resp |-> IF b.failed THEN <<>> ELSE b.out,
                                  pending_post |-> b.pending_task,
                                  failed |-> b.failed])
    /\ now' = now + 1
    /\ UNCHANGED probe

\* the user types a line
Turn(user, limit, W, X) == LoopPass(user, FALSE, limit, W, X)

\* input() raises EOFError or KeyboardInterrupt: user = "bye"
Interrupt(limit, W, X) == LoopPass(<<"b","y","e">>, TRUE, limit, W, X)

\* The process ends, or is killed between two turns, and the program is started
\* again: the new bot = Chatbot() loads the file the old one left.
Restart(limit) ==
    /\ pc \in {"loop", "done", "crashed"}
    /\ Len(log) < limit
    /\ data' = load(file)
    /\ pending_task' = NoTask
    /\ csv' = NoCsv
    /\ resp' = <<>>
    /\ pc' = "greet"
    /\ log' = Append(log, [user |-> <<>>, eof |-> FALSE, pending_pre |-> pending_task,
                           route |-> "restart", saved |-> FALSE, resp |-> <<>>,
                           pending_post |-> NoTask, failed |-> FALSE])
    /\ UNCHANGED <<file, exported, now, probe>>

\* a blank line: `continue`
BlankLine(user) ==
    /\ pc = "loop"
    /\ Strip(user) = <<>>
    /\ UNCHANGED vars

-----------------------------------------------------------------------------
(* The specifications                                                      *)

\* a history of n entries written by an earlier session
OldHistory(n) ==
    [i \in 1..n |->
        [time |-> <<"earlier ">> \o Str(i),
         role |-> IF i % 2 = 1 THEN USER ELSE ASSISTANT,
         text |-> IF i % 2 = 1 THEN <<"h","i"," ","t","h","e","r","e">> ELSE <<GREETINGS[1]>>]]

SavedData(n) ==
    [shape |-> "record", user_name |-> <<"A","n","n">>, preferences |-> {<<<<"l","a","n","g">>, <<"e","n">>>>},
     history |-> OldHistory(n)]

\* a document that does not have the shape of the memory record
CorruptFile(shape) == JsonFile([json_dump(SavedData(0)) EXCEPT !.shape = shape])

MaxTurns == 4
MaxOld == 2

\* what the user types in the dialogue specification
Inputs ==
    {<<"I"," ","h","a","v","e"," ","a"," ","p","r","o","b","l","e","m">>, <<" ","N","o","n","e"," ">>, <<"b","y","e">>, <<"/","r","e","s","e","t">>, <<"/","r","e","f","u","n","d">>, <<"m","y"," ","n","a","m","e"," ","i","s"," ","b","o","b">>,
     <<" "," "," ">>}

Init == Boot(JsonFile(json_dump(SavedData(MaxOld))))

\* writes succeed
Calm == {"ok"}

Next ==
    \/ Construct
    \/ StartGreet(Calm)
    \/ \E user \in Inputs : Turn(user, MaxTurns, Calm, {TRUE})
    \/ Interrupt(MaxTurns, Calm, {TRUE})
    \/ \E user \in Inputs : BlankLine(user)

Spec == Init /\ [][Next]_vars

\* The write-through specification: the memory file absent, unparsable or
\* saved at startup, and writes that fail.
MaxEnvTurns == 2

EnvInputs == {<<"/","s","e","t","n","a","m","e"," ","b","o","b">>, <<"m","y"," ","n","a","m","e"," ","i","s"," ","a","n","n"," ","l","e","e">>, <<"/","r","e","s","e","t">>}

EnvFiles == {AbsentFile, GarbageFile, JsonFile(json_dump(SavedData(MaxOld)))}

InitEnv == \E f \in EnvFiles : Boot(f)

NextEnv ==
    \/ Construct
    \/ StartGreet(WriteOutcomes)
    \/ \E user \in EnvInputs : Turn(user, MaxEnvTurns, WriteOutcomes, {TRUE})
    \/ Interrupt(MaxEnvTurns, WriteOutcomes, {TRUE})

SpecEnv == InitEnv /\ [][NextEnv]_vars

\* The failure specification: every state of the memory file at startup,
\* writes that fail, files that cannot be read or written.
MaxFailTurns == 2

FailInputs ==
    {<<"h","e","l","l","o">>, <<"/","e","x","p","o","r","t","_","h","i","s","t","o","r","y">>, <<"/","l","o","a","d","c","s","v"," ","s","a","l","e","s",".","c","s","v">>, <<"="," ","1","0","/","0">>, <<"/","s","u","m","m","a","r","y">>,
     <<"w","h","a","t"," ","i","s"," ","N","P","V">>, <<"/","h","e","l","p">>}

FailFiles ==
    EnvFiles \cup {CorruptFile("no_history"), CorruptFile("bad_history"),
                   CorruptFile("not_dict")}

InitFail == \E f \in FailFiles : Boot(f)

NextFail ==
    \/ Construct
    \/ StartGreet(WriteOutcomes)
    \/ \E user \in FailInputs : Turn(user, MaxFailTurns, WriteOutcomes, BOOLEAN)
    \/ Interrupt(MaxFailTurns, WriteOutcomes, BOOLEAN)

SpecFail == InitFail /\ [][NextFail]_vars

\* The history-cap specification: sessions that start with a long history.
MaxCapTurns == 3
CapSlack == 2

CapInputs == {<<"o","k"," ","t","h","a","n","k","s">>, <<"/","r","e","s","e","t">>, <<"w","h","a","t"," ","t","i","m","e"," ","i","s"," ","i","t">>}

CapFiles ==
    {JsonFile(json_dump(SavedData(n))) :
        n \in (HistoryCap - CapSlack - 1)..(HistoryCap + CapSlack)}

InitCap == \E f \in CapFiles : Boot(f)

NextCap ==
    \/ Construct
    \/ StartGreet(Calm)
    \/ \E user \in CapInputs : Turn(user, MaxCapTurns, Calm, {TRUE})

SpecCap == InitCap /\ [][NextCap]_vars

\* The round-trip specification: sessions that end and start again, with
\* quotes and backslashes in what is persisted.
MaxTripSteps == 3

QuoteLine == <<"s","a","y"," ">> \o <<"\"">> \o <<"h","i">> \o <<"\"">>
BackslashLine == <<"c",":">> \o <<"\\">> \o <<"t","e","m","p">>
QuoteName == <<"/","s","e","t","n","a","m","e"," ">> \o <<"\"">> \o <<"b","o","b">> \o <<"\"">>
TripInputs == {QuoteLine, BackslashLine, QuoteName}

TripFiles ==
    {AbsentFile, JsonFile(json_dump(SavedData(MaxOld))),
     JsonFile(json_dump(SavedData(HistoryCap)))}

InitTrip == \E f \in TripFiles : Boot(f)

NextTrip ==
    \/ Construct
    \/ StartGreet(Calm)
    \/ \E user \in TripInputs : Turn(user, MaxTripSteps, Calm, {TRUE})
    \/ Restart(MaxTripSteps)

SpecTrip == InitTrip /\ [][NextTrip]_vars

\* The ticket specification: sessions long enough to go on after a ticket.
MaxFlowTurns == 5

FlowInputs == {<<"I"," ","h","a","v","e"," ","a"," ","p","r","o","b","l","e","m">>, <<"m","y"," ","n","a","m","e"," ","i","s"," ","b","o","b">>, <<"/","h","e","l","p">>}

InitFlow == Boot(AbsentFile)

NextFlow ==
    \/ Construct
    \/ StartGreet(Calm)
    \/ \E user \in FlowInputs : Turn(user, MaxFlowTurns, Calm, {TRUE})

SpecFlow == InitFlow /\ [][NextFlow]_vars

\* The classifier specification: detect_intent applied to one text.
Vocabulary ==
    <<<<"h","i">>, <<"B","y","e">>, <<"m","y"," ","n","a","m","e"," ","i","s"," ","a","n","n">>, <<"t","i","m","e">>, <<"t","o","d","a","y">>, <<"c","a","l","c">>, <<"=","2","+","2">>, <<"n","p","v">>,
      <<"/","l","o","a","d","c","s","v"," ","a",".","c","s","v">>, <<"/","s","e","t","n","a","m","e"," ","b","o","b">>, <<"/","h","e","l","p">>, <<"/","r","e","s","e","t">>, <<"/","e","x","p","o","r","t","_","h","i","s","t","o","r","y">>,
      <<"/","s","u","m","m","a","r","y">>, <<"r","e","f","u","n","d">>, <<"h","e","l","p">>, <<"o","k">>, <<"s","e","e"," "," ","y","o","u">>, <<"/","i","s","s","u","e">>, <<"t","h","i","n","g">>>>

MaxWords == 2

\* the texts of at most n vocabulary items, separated by spaces
RECURSIVE Texts(_)
Texts(n) ==
    IF n = 0 THEN {<<>>}
    ELSE Texts(n - 1)
         \cup {(IF t = <<>> THEN <<>> ELSE t \o <<" ">>) \o Vocabulary[i] :
                 t \in Texts(n - 1), i \in DOMAIN Vocabulary}

InitIntent ==
    /\ \E t \in Texts(MaxWords) :
          probe = [fn |-> "detect_intent", arg |-> t, result |-> "", done |-> FALSE]
    /\ pc = "probe"
    /\ file = AbsentFile
    /\ data = DefaultData
    /\ pending_task = NoTask
    /\ csv = NoCsv
    /\ exported = [written |-> FALSE, lines |-> <<>>]
    /\ resp = <<>>
    /\ now = 0
    /\ log = <<>>

\* intent, m = detect_intent(normalize(text))
Classify ==
    /\ probe.fn = "detect_intent"
    /\ ~probe.done
    /\ probe' = [probe EXCEPT !.result = detect_intent(normalize(probe.arg)),
                              !.done = TRUE]
    /\ UNCHANGED <<pc, file, data, pending_task, csv, exported, resp, now, log>>

NextIntent == Classify

SpecIntent == InitIntent /\ [][NextIntent]_vars


\* The calculator specification: eval applied to one tree, and a dialogue in
\* which expressions are typed.
MaxLit == 2
MaxCalcTurns == 2

BinOps == {"Add", "Sub", "Mult", "Div", "Mod", "Pow", "FloorDiv"}

\* the literals, the signed literals, and the nodes the grammar does not have
NumAtoms ==
    {Num(n) : n \in 0..MaxLit} \cup {UnaryOp("USub", Num(n)) : n \in 1..MaxLit}
        \cup {UnaryOp("UAdd", Num(MaxLit))}
BadAtoms ==
    {Call(Num(1)), StrLit, Compare(Num(1), Num(MaxLit)), UnaryOp("Invert", Num(1))}
Atoms == NumAtoms \cup BadAtoms

\* operands of the deeper trees: zero as a difference, a failing division, a
\* fraction, a parenthesised sum, a call
Operands ==
    {Num(1), Num(0), BinOp("Sub", Num(1), Num(1)), BinOp("Div", Num(1), Num(0)),
     BinOp("Add", Num(MaxLit), Num(MaxLit)), BinOp("Pow", Num(MaxLit), UnaryOp("USub", Num(1))),
     UnaryOp("USub", Num(MaxLit)), Call(Num(1))}

Trees ==
    Atoms \cup {BinOp(op, x, y) : op \in BinOps, x \in Atoms, y \in Atoms}
          \cup {BinOp(op, x, y) : op \in BinOps, x \in Operands, y \in Operands}
          \cup {UnaryOp("USub", x) : x \in Operands}

CalcInputs == {<<"=">> \o Unparse(tree) : tree \in CalcTrees}

\* eval is applied to any of the trees before a session starts, and to the
\* tree of a typed expression beside the session in which it is typed
InitCalc ==
    /\ \/ \E tree \in Trees :
             /\ probe = [fn |-> "eval", arg |-> tree, result |-> Raised(""), done |-> FALSE]
             /\ pc = "probe"
       \/ \E tree \in CalcTrees :
             /\ probe = [fn |-> "eval", arg |-> tree, result |-> Raised(""), done |-> FALSE]
             /\ pc = "boot"
    /\ file = AbsentFile
    /\ data = DefaultData
    /\ pending_task = NoTask
    /\ csv = NoCsv
    /\ exported = [written |-> FALSE, lines |-> <<>>]
    /\ resp = <<>>
    /\ now = 0
    /\ log = <<>>

\* val = self.safe_eval.eval(expr), the text being parsed already
Evaluate ==
    /\ probe.fn = "eval"
    /\ ~probe.done
    /\ probe' = [probe EXCEPT !.result = eval(probe.arg), !.done = TRUE]
    /\ UNCHANGED <<pc, file, data, pending_task, csv, exported, resp, now, log>>

NextCalc ==
    \/ Evaluate
    \/ Construct
    \/ StartGreet(Calm)
    \/ \E user \in CalcInputs : Turn(user, MaxCalcTurns, Calm, {TRUE})

SpecCalc == InitCalc /\ [][NextCalc]_vars

\* The command specification: /setname and /loadcsv lines with arguments of
\* several kinds, typed with and without a complaint task pending.
MaxCmdTurns == 3

CmdInputs ==
    {<<"I"," ","h","a","v","e"," ","a"," ","p","r","o","b","l","e","m">>, <<"/","s","e","t","n","a","m","e"," ","b","o","b"," ","l","e","e">>, <<"/","S","e","t","N","a","m","e"," "," ","S","a","l","a","m">>, <<"/","l","o","a","d","c","s","v"," ","t","o","d","a","y",".","c","s","v">>,
     <<"/","l","o","a","d","c","s","v"," ","S","a","l","e","s",".","c","s","v">>}

InitCmd == Boot(JsonFile(json_dump(SavedData(MaxOld))))

NextCmd ==
    \/ Construct
    \/ StartGreet(Calm)
    \/ \E user \in CmdInputs : Turn(user, MaxCmdTurns, Calm, {TRUE})

SpecCmd == InitCmd /\ [][NextCmd]_vars

\* The dataset specification: handle_load_csv applied to one table, of two
\* columns and at most MaxRows rows, found at the path.
MaxRows == 2

CsvHeaders == <<<<"N","o","t","e">>, <<"S","a","l","e","s">>>>
CellValues == {<<>>, <<"x">>, <<"1">>, <<"2",".","5">>}

\* the rows csv.DictReader yields: a value for each header, the value of a
\* header the line has no field for being None
CsvRows ==
    [{CsvHeaders[1], CsvHeaders[2]} -> CellValues]
        \cup {r @@ (CsvHeaders[2] :> None) : r \in [{CsvHeaders[1]} -> CellValues]}

Tables ==
    {[state |-> "table", headers |-> CsvHeaders, rows |-> rows] :
        rows \in UNION {[1..n -> CsvRows] : n \in 0..MaxRows}}

DataPath == <<"d","a","t","a",".","c","s","v">>

InitCsv ==
    /\ \E table \in Tables :
          probe = [fn |-> "handle_load_csv", arg |-> table, result |-> <<>>, done |-> FALSE]
    /\ pc = "probe"
    /\ file = AbsentFile
    /\ data = DefaultData
    /\ pending_task = NoTask
    /\ csv = NoCsv
    /\ exported = [written |-> FALSE, lines |-> <<>>]
    /\ resp = <<>>
    /\ now = 0
    /\ log = <<>>

\* return self.handle_load_csv(m), the table probe.arg being at the path
LoadTable ==
    /\ probe.fn = "handle_load_csv"
    /\ ~probe.done
    /\ \E b \in {handle_load_csv(Bot, <<"/","l","o","a","d","c","s","v"," ">> \o DataPath, now + 1,
                                 [w3 |-> "ok", fs |-> probe.arg])} :
          /\ Effect(b)
          /\ probe' = [probe EXCEPT !.result = b.out, !.done = TRUE]
    /\ now' = now + 1
    /\ UNCHANGED <<pc, log>>

NextCsv == LoadTable

SpecCsv == InitCsv /\ [][NextCsv]_vars
-----------------------------------------------------------------------------
(* Properties                                                              *)

Last(s) == s[Len(s)]
IsGoodbye(text) == \E i \in DOMAIN GOODBYES : text = <<GOODBYES[i]>>
IsCommandLine(user) == StartsWith(normalize(user), <<"/">>)

\* the ticket message for the three values, with a five-digit ticket number
IsTicketFor(text, product, issue, order) ==
    /\ Len(text) >= 7
    /\ IsDigits(SubSeq(text, 3, 7))
    /\ text = <<"Thanks! Ticket ", "TKT-">> \o SubSeq(text, 3, 7)
              \o <<" created. Product: ">> \o product
              \o <<". Issue: ">> \o issue
              \o <<". Order ID: ">> \o order
              \o <<". Our team will follow up.">>

\* the order id as captured from the line typed: stripped, 'none' meaning no order id
ShownOrderId(user) ==
    IF LowerStr(Strip(user)) = <<"n","o","n","e">> THEN <<"N/A">> ELSE Strip(user)

\* turn i starts a complaint from no pending task and turns i+1..i+3 are not commands
StartsFlow(i) ==
    /\ i + 3 <= Len(log)
    /\ log[i].pending_pre = NoTask
    /\ log[i].route = "complaint"
    /\ \A j \in 1..3 : ~IsCommandLine(log[i + j].user)

\* C1: a complaint started from no pending task and followed by exactly three
\* turns that are not commands ends with no pending task, the third reply being
\* the ticket with a TKT- number and the captured product, issue and order id.
C1_ComplaintFlowCompletes ==
    \A i \in DOMAIN log :
        StartsFlow(i) =>
            /\ log[i + 3].pending_post = NoTask
            /\ ~log[i + 3].failed
            /\ IsTicketFor(log[i + 3].resp, log[i + 1].user, log[i + 2].user,
                           ShownOrderId(log[i + 3].user))

\* a complaint flow has completed whose product was a goodbye word
C1_Witness ==
    \E i \in DOMAIN log :
        /\ StartsFlow(i)
        /\ log[i + 1].user = <<"b","y","e">>
        /\ log[i + 2].user = <<"I"," ","h","a","v","e"," ","a"," ","p","r","o","b","l","e","m">>
        /\ log[i + 3].pending_post = NoTask

\* the canonical order of the intents
CanonicalOrder ==
    <<"greet", "goodbye", "set_name", "ask_time", "ask_date", "calculator", "faq",
      "load_csv", "setname_cmd", "help", "reset", "export", "summary", "complaint">>

\* the places in the canonical order of the patterns that match the text
MatchingPlaces(t) == {i \in DOMAIN CanonicalOrder : PatternMatches(CanonicalOrder[i], t)}

\* C2: detect_intent returns the intent of the earliest pattern, in the canonical
\* order, that matches the normalized text, and the fallback (help for a text
\* containing "help" or "commands", else smalltalk) only when no pattern matches.
C2_EarliestPatternWins ==
    probe.done =>
        LET t == normalize(probe.arg)
        IN  IF MatchingPlaces(t) # {}
            THEN probe.result = CanonicalOrder[Min(MatchingPlaces(t))]
            ELSE probe.result =
                    IF Includes(t, <<"h","e","l","p">>) \/ Includes(t, <<"c","o","m","m","a","n","d","s">>)
                    THEN "help" ELSE "smalltalk"

\* a text that matches two patterns has been classified
C2_Witness ==
    /\ probe.done
    /\ Cardinality(MatchingPlaces(normalize(probe.arg))) >= 2
    /\ probe.result = "goodbye"

\* the entries a step appends: the user's line and the reply of a turn, or the
\* greeting before the loop
Appended ==
    IF log' # log
    THEN <<[time |-> now_str(now'), role |-> USER, text |-> Last(log').user],
           [time |-> now_str(now'), role |-> ASSISTANT, text |-> resp']>>
    ELSE <<[time |-> now_str(now), role |-> ASSISTANT, text |-> resp']>>

IsSuffixOf(s, full) == Len(s) <= Len(full) /\ s = SubSeq(full, Len(full) - Len(s) + 1, Len(full))

MinOf(a, b) == IF a < b THEN a ELSE b

\* C3: once the session has greeted, the history never holds more than 400
\* entries, and a step that appends to it (any turn but /reset, from any
\* persisted history) keeps the newest entries in their order, dropping the oldest.
C3_HistoryCapFifo ==
    /\ [](pc \in {"loop", "done"} => Len(data.history) <= HistoryCap)
    /\ [][(pc \in {"greet", "loop"} /\ pc' \in {"loop", "done"}
           /\ (log' # log => Last(log').route # "reset"))
          => /\ IsSuffixOf(data'.history, data.history \o Appended)
             /\ Len(data'.history) = MinOf(Len(data.history) + Len(Appended), HistoryCap)]_vars

\* the history is full and its oldest entry is no longer the first one persisted
C3_Witness ==
    /\ pc = "loop"
    /\ Len(log) >= 1
    /\ Len(data.history) = HistoryCap
    /\ data.history[1] # OldHistory(1)[1]
    /\ data.history[1].role = ASSISTANT

ResetReply == <<"Memory cleared. Fresh start!">>

\* the last turn was a /reset that returned
AfterReset == log # <<>> /\ Last(log).route = "reset" /\ ~Last(log).failed

\* C4: after a /reset turn, user_name is unset, preferences is empty and the
\* history holds one entry, the reply to the reset; the persisted record shows
\* the same when the last write of the turn succeeded.
C4_ResetLeavesOnlyItsReply ==
    AfterReset =>
        /\ data.user_name = None
        /\ data.preferences = {}
        /\ Len(data.history) = 1
        /\ data.history[1].role = ASSISTANT
        /\ data.history[1].text = ResetReply
        /\ Last(log).saved => (file.state = "json" /\ json_load(file.doc) = data)

\* a session that had a name, preferences and a history has been reset and saved
C4_Witness ==
    /\ AfterReset
    /\ Last(log).saved
    /\ Len(log) = 2
    /\ log[1].route = "setname_cmd"
    /\ json_load(file.doc).history = data.history

\* C4 as claimed: after a /reset turn the history is empty
C4_ResetEmptiesHistory ==
    AfterReset =>
        /\ data.user_name = None
        /\ data.preferences = {}
        /\ data.history = <<>>
        /\ Last(log).saved => (file.state = "json" /\ json_load(file.doc) = data)

\* the first slot of a task that is not filled, "" when all are
NextSlot(task) ==
    IF task.slots.product = None THEN "product"
    ELSE IF task.slots.issue = None THEN "issue"
    ELSE IF task.slots.order_id = None THEN "order_id" ELSE ""

\* turn i took a command line while a task was pending
CommandWhilePending(i) ==
    /\ log[i].pending_pre.type = "complaint"
    /\ IsCommandLine(log[i].user)
    /\ ~log[i].failed

\* C5: while a complaint task is pending, a turn whose normalized input starts
\* with '/' goes through the classifier and leaves the task and its slots as they
\* were, unless the classifier returns complaint: then the line is captured as
\* the next slot value, as any other line is.
C5_CommandKeepsTaskUnlessComplaint ==
    \A i \in DOMAIN log :
        CommandWhilePending(i) =>
            /\ log[i].route # "slot"
            /\ log[i].route # "complaint" => log[i].pending_post = log[i].pending_pre
            /\ (log[i].route = "complaint" /\ NextSlot(log[i].pending_pre) = "product")
                  => log[i].pending_post =
                         [log[i].pending_pre EXCEPT !.slots.product = log[i].user]
            /\ (log[i].route = "complaint" /\ NextSlot(log[i].pending_pre) = "issue")
                  => log[i].pending_post =
                         [log[i].pending_pre EXCEPT !.slots.issue = log[i].user]
            /\ (log[i].route = "complaint" /\ NextSlot(log[i].pending_pre) = "order_id")
                  => log[i].pending_post = NoTask

\* /reset was taken with a product already captured and left the task alone,
\* and /refund was captured as the issue
C5_Witness ==
    \E i, j \in DOMAIN log :
        /\ CommandWhilePending(i) /\ CommandWhilePending(j)
        /\ log[i].route = "reset"
        /\ log[i].pending_pre.slots.product # None
        /\ log[j].route = "complaint"
        /\ log[j].pending_post.slots.issue = <<"/","r","e","f","u","n","d">>

\* C5 as claimed: every command line leaves the pending task and its slots unchanged
C5_CommandKeepsTask ==
    \A i \in DOMAIN log :
        CommandWhilePending(i) => log[i].pending_post = log[i].pending_pre

\* turn i is a goodbye phrase alone, typed by the user
BareGoodbye(i) == normalize(log[i].user) \in GoodbyeWords /\ ~log[i].eof

C7_InterruptEndsSession ==
    \A i \in DOMAIN log :
        log[i].eof => IsGoodbye(log[i].resp) /\ i = Len(log) /\ pc = "done"

\* C8 as claimed: every turn returns a reply, whatever the input and the
\* environment, and the process ends only after a goodbye reply
C8_NoTurnFails ==
    /\ \A i \in DOMAIN log : ~log[i].failed
    /\ (pc \in {"done", "crashed"} /\ log # <<>>) => IsGoodbye(Last(log).resp)

\* C9 as claimed: whatever the file holds at startup, the memory is a record
\* with user_name, preferences and history, and appending to the history works
C9_StartupYieldsMemoryRecord ==
    /\ pc # "boot" => data.shape = "record"
    /\ ~(pc = "crashed" /\ log = <<>>)

\* C10: at the end of every turn whose last write succeeded, the persisted
\* record, read back, equals the record in memory.
C10_WriteThrough ==
    (pc \in {"loop", "done"} /\ log # <<>> /\ Last(log).saved)
        => /\ file.state = "json"
           /\ json_load(file.doc).user_name = data.user_name
           /\ json_load(file.doc).preferences = data.preferences
           /\ json_load(file.doc).history = data.history

\* a name was set by the command, then by the phrase, and both were persisted
C10_Witness ==
    /\ Len(log) = 2
    /\ log[1].route = "setname_cmd" /\ log[2].route = "set_name"
    /\ Last(log).saved
    /\ data.user_name = <<"A","n","n">>
    /\ json_load(file.doc).user_name = <<"A","n","n">>

\* C11: when a session ends and a new one loads what it saved, the record
\* loaded equals the record that was in memory in user_name, preferences and
\* history, and the history holds at most 400 entries.
C11_RoundTrip ==
    [][(pc # "boot" /\ pc' = "greet")
          => /\ data'.user_name = data.user_name
             /\ data'.preferences = data.preferences
             /\ data'.history = data.history
             /\ Len(data'.history) <= HistoryCap]_vars

\* a full history with a quoted line in it has been saved and loaded again
C11_Witness ==
    /\ pc = "greet"
    /\ log # <<>> /\ Last(log).route = "restart"
    /\ Len(data.history) = HistoryCap
    /\ \E i \in DOMAIN data.history : data.history[i].text = QuoteLine
    /\ data.history[1] # OldHistory(1)[1]

AlreadyCreated == <<"Your ticket is already created. Anything else?">>

\* turn i follows the turn that made the ticket, and carries no complaint intent
FollowsTicket(i) ==
    /\ i > 1
    /\ log[i - 1].pending_pre.type = "complaint"
    /\ log[i - 1].pending_post = NoTask
    /\ detect_intent(normalize(log[i].user)) # "complaint"

\* C12: the turn that follows a completed ticket finds no pending task; when it
\* carries no complaint intent it goes to the handler of its own intent and
\* leaves no task pending, and no turn is answered that the ticket is already
\* created.
C12_TurnAfterTicketIsOrdinary ==
    \A i \in DOMAIN log :
        /\ log[i].resp # AlreadyCreated
        /\ FollowsTicket(i) =>
              /\ log[i].pending_pre = NoTask
              /\ log[i].route = detect_intent(normalize(log[i].user))
              /\ log[i].pending_post = NoTask

\* a name was given after a ticket, and set
C12_Witness ==
    \E i \in DOMAIN log :
        /\ FollowsTicket(i)
        /\ log[i].route = "set_name"
        /\ IsTicketFor(log[i - 1].resp, log[i - 3].user, log[i - 2].user,
                       ShownOrderId(log[i - 1].user))
        /\ data.user_name = <<"B","o","b">>

\* C12 as claimed: the turn that follows a completed ticket and carries no
\* complaint intent is answered that the ticket is already created
C12_TurnAfterTicketSaysCreated ==
    \A i \in DOMAIN log : FollowsTicket(i) => log[i].resp = AlreadyCreated

SlotNames == {"product", "issue", "order_id"}

\* every slot filled in the task pre holds the same value in the task post
SlotsKept(pre, post) ==
    \A s \in SlotNames : pre.slots[s] # None => post.slots[s] = pre.slots[s]

\* C13: a turn taken while a complaint task is pending, whatever its text, either
\* leaves a complaint task in which every slot already filled keeps its value (so
\* the task is not replaced by a fresh one), or is the turn that captures the
\* order id and emits the ticket with the product and the issue captured before.
C13_NoSecondComplaint ==
    \A i \in DOMAIN log :
        (log[i].pending_pre.type = "complaint" /\ ~log[i].failed) =>
            \/ /\ log[i].pending_post.type = "complaint"
               /\ SlotsKept(log[i].pending_pre, log[i].pending_post)
               /\ log[i].pending_post.slots = EmptySlots
                     => log[i].pending_pre.slots = EmptySlots
            \/ /\ log[i].pending_post = NoTask
               /\ NextSlot(log[i].pending_pre) = "order_id"
               /\ IsTicketFor(log[i].resp, log[i].pending_pre.slots.product,
                              log[i].pending_pre.slots.issue, ShownOrderId(log[i].user))

\* with the product captured, a complaint phrase and a '/'-prefixed complaint
\* keyword were typed and the product is still the one captured
C13_Witness ==
    \E i, j \in DOMAIN log :
        /\ log[i].pending_pre.slots.product = <<"b","y","e">>
        /\ log[i].user = <<"I"," ","h","a","v","e"," ","a"," ","p","r","o","b","l","e","m">>
        /\ log[i].pending_post.slots.product = <<"b","y","e">>
        /\ log[j].pending_pre.slots.product = <<"b","y","e">>
        /\ log[j].user = <<"/","r","e","f","u","n","d">>
        /\ log[j].route = "complaint"
        /\ IsTicketFor(log[j].resp, <<"b","y","e">>, <<"I"," ","h","a","v","e"," ","a"," ","p","r","o","b","l","e","m">>, <<"/","r","e","f","u","n","d">>)

\* the operands of a node
Children(node) ==
    CASE node.node = "BinOp" -> {node.left, node.right}
      [] node.node = "Compare" -> {node.left, node.right}
      [] node.node = "UnaryOp" -> {node.operand}
      [] node.node = "Call" -> {node.arg}
      [] OTHER -> {}

\* the node itself is outside the permitted grammar: a call, a comparison, an
\* operator other than + - * / % ** and the unary signs, a literal that is not
\* a number
BadNode(node) ==
    \/ node.node \in {"Call", "Compare"}
    \/ node.node = "Constant" /\ ~node.numeric
    \/ node.node \in {"BinOp", "UnaryOp"} /\ node.op \notin ALLOWED_OPS

RECURSIVE OutsideGrammar(_)
OutsideGrammar(tree) == BadNode(tree) \/ \E c \in Children(tree) : OutsideGrammar(c)

\* the failure of an expression that is not permitted
DisallowedFailure(out) ==
    ~out.ok /\ out.err \in {"Disallowed expression", "Unsupported expression"}

\* C14 as claimed: a tree holding a node outside the permitted grammar fails
\* before any arithmetic: eval reports the disallowed-expression failure,
\* never a value and never the divide-by-zero of another sub-expression; and
\* the calculator's reply to such an expression names that failure
C14_FailsClosedBeforeArithmetic ==
    /\ (probe.fn = "eval" /\ probe.done /\ OutsideGrammar(probe.arg))
          => DisallowedFailure(probe.result)
    /\ \A i \in DOMAIN log : \A tree \in CalcTrees :
          (log[i].user = <<"=">> \o Unparse(tree) /\ OutsideGrammar(tree))
              => \E err \in {"Disallowed expression", "Unsupported expression"} :
                    log[i].resp = <<"Sorry, I couldn't evaluate that. (">> \o <<err>> \o <<")">>

\* The reference arithmetic: the value of a tree as the fraction n / d with
\* d > 0, "zero_division" where the arithmetic has no value, "unmodelled" for
\* a power with a fractional exponent.
RefNumber(n, d) == [def |-> "value", n |-> IF d < 0 THEN -n ELSE n, d |-> Abs(d)]
RefNone(why) == [def |-> why, n |-> 0, d |-> 1]

\* a to the power k, k >= 0
RefPower(a, k) == IF k = 0 THEN 1 ELSE a ^ k

\* l mod r: l - k * r for the integer k that puts it between 0 and r
RefMod(l, r) ==
    LET bound == Abs(l.n * r.d) + 1
        k == CHOOSE k \in -bound..bound :
                LET x == l.n * r.d - k * r.n * l.d
                IN  x * r.n >= 0 /\ Abs(x) < Abs(r.n) * l.d
    IN  RefNumber(l.n * r.d - k * r.n * l.d, l.d * r.d)

RefBinary(op, l, r) ==
    CASE op = "Add"  -> RefNumber(l.n * r.d + r.n * l.d, l.d * r.d)
      [] op = "Sub"  -> RefNumber(l.n * r.d - r.n * l.d, l.d * r.d)
      [] op = "Mult" -> RefNumber(l.n * r.n, l.d * r.d)
      [] op = "Div"  -> IF r.n = 0 THEN RefNone("zero_division")
                        ELSE RefNumber(l.n * r.d, l.d * r.n)
      [] op = "Mod"  -> IF r.n = 0 THEN RefNone("zero_division") ELSE RefMod(l, r)
      [] op = "Pow"  ->
            IF r.n % r.d # 0 THEN RefNone("unmodelled")
            ELSE LET k == r.n \div r.d
                 IN  IF k >= 0 THEN RefNumber(RefPower(l.n, k), RefPower(l.d, k))
                     ELSE IF l.n = 0 THEN RefNone("zero_division")
                     ELSE RefNumber(RefPower(l.d, -k), RefPower(l.n, -k))

RECURSIVE Ref(_)
Ref(tree) ==
    CASE tree.node = "Constant" -> RefNumber(tree.value, 1)
      [] tree.node = "UnaryOp" ->
            LET v == Ref(tree.operand)
            IN  IF tree.op = "USub" /\ v.def = "value" THEN RefNumber(-v.n, v.d) ELSE v
      [] tree.node = "BinOp" ->
            LET l == Ref(tree.left)
                r == Ref(tree.right)
            IN  IF l.def = "zero_division" THEN l
                ELSE IF r.def = "zero_division" THEN r
                ELSE IF l.def = "unmodelled" \/ r.def = "unmodelled" THEN RefNone("unmodelled")
                ELSE RefBinary(tree.op, l, r)

\* a tree of integer literals, the binary operators in ops and the unary signs
RECURSIVE InGrammar(_, _)
InGrammar(tree, ops) ==
    CASE tree.node = "Constant" -> tree.numeric
      [] tree.node = "UnaryOp" ->
            tree.op \in {"UAdd", "USub"} /\ InGrammar(tree.operand, ops)
      [] tree.node = "BinOp" ->
            tree.op \in ops /\ InGrammar(tree.left, ops) /\ InGrammar(tree.right, ops)
      [] OTHER -> FALSE

\* some division or modulo of the tree has a right operand that evaluates to zero
RECURSIVE HasZeroDivisor(_)
HasZeroDivisor(tree) ==
    \/ /\ tree.node = "BinOp"
       /\ tree.op \in {"Div", "Mod"}
       /\ Ref(tree.right).def = "value"
       /\ Ref(tree.right).n = 0
    \/ \E c \in Children(tree) : HasZeroDivisor(c)

\* the result is the value v of the reference arithmetic
ReturnsRef(out, v) ==
    /\ out.ok
    /\ v.def = "value" => (out.val # Inexact /\ out.val.p * v.d = v.n * out.val.q)

Evaluated(ops) == probe.fn = "eval" /\ probe.done /\ InGrammar(probe.arg, ops)

\* the calculator's reply to a failed evaluation, after which the loop goes on
CalcErrorTurn(i) ==
    /\ log[i].route = "calculator"
    /\ ~log[i].failed
    /\ \E err \in {"division by zero"} :
          log[i].resp = <<"Sorry, I couldn't evaluate that. (">> \o <<err>> \o <<")">>
    /\ i = Len(log) => pc = "loop"

\* C15: on a tree of integer literals, + - * % **, the unary signs and
\* parentheses, eval returns the value of the reference arithmetic wherever
\* that arithmetic has one (2+2 gives 4); it fails with the divide-by-zero
\* failure where a division or modulo has a right operand evaluating to zero,
\* and where zero is raised to a negative power; the calculator turns the
\* failure into an error reply and the loop continues
C15_EvalMatchesReference ==
    /\ Evaluated({"Add", "Sub", "Mult", "Div", "Mod", "Pow"}) =>
          IF Ref(probe.arg).def = "zero_division"
          THEN ~probe.result.ok /\ probe.result.err = "ZeroDivisionError"
          ELSE ReturnsRef(probe.result, Ref(probe.arg))
    /\ Evaluated({"Add", "Sub", "Mult", "Div", "Mod", "Pow"}) /\ HasZeroDivisor(probe.arg) =>
          Ref(probe.arg).def = "zero_division"
    /\ \A i \in DOMAIN log : \A tree \in CalcTrees :
          log[i].user = <<"=">> \o Unparse(tree) =>
              /\ tree = BinOp("Add", Num(2), Num(2)) => log[i].resp = <<"Result: ">> \o <<"4">>
              /\ (~OutsideGrammar(tree) /\ Ref(tree).def = "zero_division") => CalcErrorTurn(i)

\* a division by zero has failed in eval, the same expression typed into the
\* calculator was answered with the error reply, and the next line, 2+2, was
\* read and answered with 4
C15_Witness ==
    /\ probe.fn = "eval" /\ probe.done
    /\ probe.arg = BinOp("Div", Num(1), Num(0))
    /\ probe.result = Raised("ZeroDivisionError")
    /\ Len(log) = 2
    /\ log[1].user = <<"=">> \o Unparse(probe.arg)
    /\ CalcErrorTurn(1)
    /\ log[2].user = <<"=">> \o Unparse(BinOp("Add", Num(2), Num(2)))
    /\ log[2].resp = <<"Result: ">> \o <<"4">>

\* C15 as claimed: eval returns the value of the reference arithmetic on every
\* tree of integer literals, + - * % **, the unary signs and parentheses in
\* which no modulo has a right operand evaluating to zero
C15_EvalReturnsOnEveryTree ==
    (Evaluated({"Add", "Sub", "Mult", "Mod", "Pow"}) /\ ~HasZeroDivisor(probe.arg)) =>
        ReturnsRef(probe.result, Ref(probe.arg))

\* the step is a turn on a line that is not a command, taken while a complaint
\* task is pending
SlotTurn ==
    /\ Len(log') = Len(log) + 1
    /\ pending_task.type = "complaint"
    /\ ~IsCommandLine(Last(log').user)
    /\ ~Last(log').failed

\* nothing but the history entries of the turn is added to what handlers keep:
\* the name, the preferences, the CSV table and the export are as they were,
\* the history has the line and the reply at its tail, and the loop goes on
OnlySlotFilled ==
    /\ data'.user_name = data.user_name
    /\ data'.preferences = data.preferences
    /\ Len(data'.history) = Len(data.history) + 2
    /\ SubSeq(data'.history, 1, Len(data.history)) = data.history
    /\ csv' = csv
    /\ exported' = exported
    /\ pc' = "loop"

\* C16: while a complaint task is pending, a line whose normalized form does not
\* start with '/' is consumed by the slot-filling handler alone, whatever intent
\* it would match: as product or issue the raw text is stored verbatim; as order
\* id it is stored without the white space around it, 'none' in any case
\* meaning no order id, and the ticket is emitted; no other handler's effect
\* occurs (user_name and the rest of the memory stay, the session goes on)
C16_SlotFillingAlone ==
    [][SlotTurn =>
        LET user == Last(log').user
            slot == NextSlot(pending_task)
        IN  /\ Last(log').route = "slot"
            /\ slot = "product" =>
                  pending_task' = [pending_task EXCEPT !.slots.product = user]
            /\ slot = "issue" =>
                  pending_task' = [pending_task EXCEPT !.slots.issue = user]
            /\ slot = "order_id" =>
                  /\ pending_task' = NoTask
                  /\ IsTicketFor(resp', pending_task.slots.product,
                                 pending_task.slots.issue, ShownOrderId(user))
            /\ OnlySlotFilled]_vars

\* 'my name is bob' was captured as the product and 'bye' as the issue, ' None '
\* was taken as no order id, and the name loaded at startup is still in memory
C16_Witness ==
    /\ Len(log) = 4
    /\ log[2].route = "slot" /\ log[2].user = <<"m","y"," ","n","a","m","e"," ","i","s"," ","b","o","b">>
    /\ log[3].route = "slot" /\ log[3].user = <<"b","y","e">>
    /\ log[4].route = "slot" /\ log[4].user = <<" ","N","o","n","e"," ">>
    /\ IsTicketFor(log[4].resp, <<"m","y"," ","n","a","m","e"," ","i","s"," ","b","o","b">>, <<"b","y","e">>, <<"N/A">>)
    /\ data.user_name = <<"A","n","n">>
    /\ pc = "loop"

\* C16 as claimed: the raw text is stored verbatim in the next unfilled slot,
\* the order id included, and no other handler's effect occurs
C16_EverySlotVerbatim ==
    [][SlotTurn =>
        LET user == Last(log').user
            slot == NextSlot(pending_task)
        IN  /\ slot = "product" =>
                  pending_task' = [pending_task EXCEPT !.slots.product = user]
            /\ slot = "issue" =>
                  pending_task' = [pending_task EXCEPT !.slots.issue = user]
            /\ slot = "order_id" =>
                  IsTicketFor(resp', pending_task.slots.product,
                              pending_task.slots.issue, user)
            /\ OnlySlotFilled]_vars

\* C17: in every state the pending task is none, or a complaint task in which
\* the order id slot is not filled and the issue slot is filled only if the
\* product slot is
C17_SlotOrder ==
    \/ pending_task = NoTask
    \/ /\ pending_task.type = "complaint"
       /\ pending_task.slots.order_id = None
       /\ pending_task.slots.issue # None => pending_task.slots.product # None

\* a task is pending with the product and the issue captured in two turns,
\* and the order id awaited
C17_Witness ==
    /\ pending_task.type = "complaint"
    /\ pending_task.slots.product # None
    /\ pending_task.slots.issue # None
    /\ \E i \in DOMAIN log :
          /\ i < Len(log)
          /\ NextSlot(log[i].pending_pre) = "product"
          /\ NextSlot(log[i].pending_post) = "issue"
          /\ NextSlot(log[i + 1].pending_post) = "order_id"

\* the line is the command cmd followed by white space and an argument
IsCommandWithArg(user, cmd) == CmdArgStart(normalize(user), cmd) # 0

\* the argument of the command as the handler receives it: taken from the
\* normalized line, so in lower case
CommandArg(user, cmd) == Strip(CmdGroup(normalize(user), cmd))

\* the intents whose patterns come before those of the commands in INTENT_PATTERNS
EarlierIntents ==
    {"greet", "goodbye", "set_name", "ask_time", "ask_date", "calculator", "faq"}

\* a pattern before the command patterns in INTENT_PATTERNS matches the line
Preempted(user) ==
    \E name \in EarlierIntents : PatternMatches(name, normalize(user))

\* the step is a turn of the loop
TurnTaken == Len(log') = Len(log) + 1 /\ Last(log').route # "restart"

\* handle_load_csv ran on the path: it found nothing there, or took the path
\* over before reading the file
LoaderReached(path) ==
    \/ resp' = <<"CSV not found. Please provide a valid path.">> /\ csv' = csv
    \/ csv'.loaded_csv = path

AppendsTurn(before, after, user, answer) ==
    LET evicted == Len(before) + 2 - Len(after)
    IN  /\ evicted >= 0
        /\ evicted > 0 => Len(after) = HistoryCap
        /\ Len(after) >= 2
        /\ SubSeq(after, 1, Len(after) - 2) = SubSeq(before, evicted + 1, Len(before))
        /\ after[Len(after) - 1].role = USER
        /\ after[Len(after) - 1].text = user
        /\ after[Len(after)].role = ASSISTANT
        /\ after[Len(after)].text = answer

\* C19 as claimed: every turn other than /reset appends at the tail of the
\* history exactly two entries, the user's raw input with role user and then
\* the reply with role assistant, and leaves the entries already there as they
\* were and in their order, the oldest leaving only by eviction
C19_TurnAppendsTwoEntries ==
    [][(TurnTaken /\ Last(log').route # "reset") =>
          AppendsTurn(data.history, data'.history, Last(log').user, resp')]_vars

\* the turn captures the order id and emits the ticket
CompletesTicket ==
    /\ NextSlot(pending_task) = "order_id"
    /\ Last(log').route \in {"slot", "complaint"}
    /\ IsTicketFor(resp', pending_task.slots.product, pending_task.slots.issue,
                   ShownOrderId(Last(log').user))

\* C20: the pending task becomes none only in the turn that captures the order
\* id and emits the ticket; every other turn leaves an active task pending with
\* its filled slots in place, and /reset, which clears name, preferences and
\* history, leaves the task exactly as it was
C20_DestroyedOnlyByCompletion ==
    [][(TurnTaken /\ pending_task.type = "complaint") =>
          /\ pending_task' = NoTask => CompletesTicket
          /\ pending_task' # NoTask =>
                /\ ~CompletesTicket
                /\ pending_task'.type = "complaint"
                /\ SlotsKept(pending_task, pending_task')
          /\ Last(log').route = "reset" =>
                /\ pending_task' = pending_task
                /\ data'.user_name = None
                /\ data'.preferences = {}
                /\ Len(data'.history) = 1]_vars

\* /reset has just cleared a memory that held a name, with the product and the
\* issue of a pending task captured, and the task is there with both
C20_Witness ==
    /\ Len(log) = 4
    /\ log[1].pending_pre = NoTask /\ log[1].pending_post.type = "complaint"
    /\ log[4].route = "reset"
    /\ log[4].pending_pre.slots.issue # None
    /\ pending_task = log[4].pending_pre
    /\ data.user_name = None
    /\ pc = "loop"

\* the column has a non-empty value, and the first of them parses as a number
NumericFirstValue(rows, h) ==
    LET filled == {i \in DOMAIN rows : Cell(rows[i], h) # None /\ Cell(rows[i], h) # <<>>}
    IN  filled # {} /\ FloatOk(Cell(rows[Min(filled)], h))

\* the first line of the reply for a table with rows
LoadedLine(path, table) ==
    <<"Loaded ">> \o path \o <<" with ">> \o Str(Len(table.rows))
        \o <<" rows and ">> \o Str(Len(table.headers)) \o <<" columns.">>

\* the reply reports statistics, and they are those of column h
ReportsStatsFor(text, path, table, h) ==
    LET n == Len(LoadedLine(path, table))
    IN  /\ Len(text) >= n + 3 + Len(h)
        /\ SubSeq(text, 1, n) = LoadedLine(path, table)
        /\ text[n + 1] = "\n"
        /\ text[n + 2] = "Quick stats for '"
        /\ SubSeq(text, n + 3, n + 2 + Len(h)) = h
        /\ text[n + 3 + Len(h)] = "': count="

\* C21 as claimed: in a loaded dataset with at least one row, the column
\* analysed is the first header, in header order, whose first non-empty value
\* parses as a number; a column with no non-empty value is never selected, so
\* statistics are reported whenever some column has such a value
C21_FirstNumericColumnAnalysed ==
    (probe.fn = "handle_load_csv" /\ probe.done /\ probe.arg.rows # <<>>) =>
        LET table == probe.arg
            numeric == SelectSeq(table.headers,
                                 LAMBDA h : NumericFirstValue(table.rows, h))
        IN  IF numeric = <<>> THEN resp = LoadedLine(DataPath, table)
            ELSE ReportsStatsFor(resp, DataPath, table, Head(numeric))

=============================================================================
